---- MODULE Spec2Model ----
(***************************************************************************)
(* A model of rustlog's message codec (db/schema.rs), its query engine     *)
(* (db/mod.rs) and the staging buffer the engine reads, the loop that      *)
(* polls the listing of live sources (streams.rs) and the log handlers     *)
(* (web/handlers.rs).                                                      *)
(*                                                                         *)
(* Strings are sequences of tokens.  A token is a single character where   *)
(* the code looks at characters (colour digits, the ',' of a badge list)   *)
(* and a whole run of characters where the code only copies or compares.   *)
(***************************************************************************)
EXTENDS Integers, Sequences, FiniteSets, TLC

VARIABLES
    line,       \* codec: the UnstructuredMessage under conversion
    row,        \* codec: the StructuredMessage decode produced, or NoRow
    tags,       \* codec: the tag list all_tags produced
    cpc,        \* codec: "raw" | "decoded" | "rejected" | "encoded"
    range,      \* windows: the (from, to) read_channel is called with
    streams,    \* windows: the (from, to) of each data cursor it opened
    wpc,        \* windows: "call" | "multi" | "single"
    store,      \* engine: the rows of message_structured
    buffer,     \* engine: the rows the staging buffer holds
    batch,      \* engine: the rows a flush has stored and not yet evicted
    gone,       \* engine: the rows deleted from the store
    rd,         \* engine: the read in progress
    bits,       \* flags: the MessageFlags bitset under conversion
    fnoise,     \* flags: flag tags of the line valued other than "1"
    ftags,      \* flags: the (tag, "1") list as_tags produced
    fbits,      \* flags: the bitset decoded from the tags
    fpc,        \* flags: "bits" | "tags" | "decoded"
    clock,      \* loop: Instant::now(), in seconds since the task started
    request_interval, \* loop: the configured interval, in seconds
    timeout,    \* loop: the deadline of the pinned sleep
    lpc,        \* loop: "select" | "request" | "send" | "exited"
    last_loop,  \* loop: the ids seen in the pass before
    current_loop, \* loop: the ids seen in this pass
    cursor,     \* loop: the pagination cursor of the next request
    page,       \* loop: the locals of the page in hand
    shutdown,   \* loop: the shutdown signal has been raised
    writer,     \* loop: the write queue: open or closed, and what it got
    listing,    \* loop: the pages the external listing serves
    hist,       \* loop: what the passes did, kept for the properties
    qparams,    \* query text: the range and LogsParams of a channel read
    qsent,      \* query text: the queries handed to the store, in order
    qpc,        \* query text: "call" | "done"
    hcall,      \* handlers: the request, the configuration and what the
                \* collaborators will answer
    htrace,     \* handlers: the checks, lookups and store reads made so far
    hpc         \* handlers: the steps the handler has left, and its answer

codecVars == <<line, row, tags, cpc>>

windowVars == <<range, streams, wpc>>

engineVars == <<store, buffer, batch, gone, rd>>

flagVars == <<bits, fnoise, ftags, fbits, fpc>>

loopVars == <<clock, request_interval, timeout, lpc, last_loop, current_loop,
              cursor, page, shutdown, writer, listing, hist>>

textVars == <<qparams, qsent, qpc>>

handlerVars == <<hcall, htrace, hpc>>

vars == <<line, row, tags, cpc, range, streams, wpc, store, buffer, batch, gone, rd,
          bits, fnoise, ftags, fbits, fpc,
          clock, request_interval, timeout, lpc, last_loop, current_loop,
          cursor, page, shutdown, writer, listing, hist,
          qparams, qsent, qpc, hcall, htrace, hpc>>

(***************************************************************************)
(* Each part of the program is checked on its own: the variables of the    *)
(* other parts then rest at these values.                                  *)
(***************************************************************************)
CodecIdle ==
    /\ line = [ok |-> FALSE]
    /\ row = [ok |-> FALSE]
    /\ tags = <<>>
    /\ cpc = "off"

WindowsIdle ==
    /\ range = <<0, 0>>
    /\ streams = <<>>
    /\ wpc = "off"

IdleRead ==
    [op |-> "idle", pc |-> "idle", reverse |-> FALSE, from |-> 0, to |-> 0,
     before |-> {}, merged |-> FALSE, buf |-> <<>>, queries |-> <<>>,
     cursors |-> <<>>, out |-> <<>>, count |-> 0, offset |-> 0,
     result |-> "none"]

EngineIdle ==
    /\ store = {}
    /\ buffer = {}
    /\ batch = {}
    /\ gone = {}
    /\ rd = IdleRead

FlagsIdle ==
    /\ bits = 0
    /\ fnoise = <<>>
    /\ ftags = <<>>
    /\ fbits = 0
    /\ fpc = "off"

NoCursor == 0

NoPage == [data |-> <<>>, small_count |-> 0, new_streams |-> <<>>]

NoHist ==
    [passes |-> 0, started |-> 0, ended |-> 0,
     outcome |-> "none", listing_failed |-> FALSE, how |-> "none",
     requested |-> <<>>, seen |-> <<>>, offered |-> <<>>, against |-> {}]

LoopIdle ==
    /\ clock = 0
    /\ request_interval = 0
    /\ timeout = 0
    /\ lpc = "off"
    /\ last_loop = {}
    /\ current_loop = {}
    /\ cursor = NoCursor
    /\ page = NoPage
    /\ shutdown = FALSE
    /\ writer = [open |-> TRUE, got |-> <<>>]
    /\ listing = <<>>
    /\ hist = NoHist

TextIdle ==
    /\ qparams = [ok |-> FALSE]
    /\ qsent = <<>>
    /\ qpc = "off"

HandlersIdle ==
    /\ hcall = [ok |-> FALSE]
    /\ htrace = <<>>
    /\ hpc = [left |-> <<>>, answer |-> "off"]

(***************************************************************************)
(* Bounds                                                                  *)
(***************************************************************************)
MaxTags == 2          \* tags on one line when the tags are drawn from CoreTags
TicksPerDay == 2      \* clock ticks in a day: timestamps are whole ticks
MaxFromDays == 1      \* window partition: the latest start of a range, in days
MaxLenDays == 45      \* window partition: the longest range, in days
MaxRows == 2          \* engine: the rows the ingestion accepts in a run
MaxInterval == 1      \* loop: the largest request_interval, in seconds
MaxClock == 5         \* loop: the seconds the clock is followed for
MaxPasses == 3        \* loop: the passes of a run

(***************************************************************************)
(* db/schema.rs: MessageFlags                                              *)
(***************************************************************************)
FlagTags ==
    <<"subscriber", "vip", "mod", "turbo", "first-msg", "returning-chatter",
      "emote-only", "r9k", "subs-only", "slow">>

RECURSIVE Pow2(_)
Pow2(n) == IF n = 0 THEN 1 ELSE 2 * Pow2(n - 1)

IndexOf(seq, x) == CHOOSE i \in 1..Len(seq) : seq[i] = x

InSeq(seq, x) == \E i \in 1..Len(seq) : seq[i] = x

\* MessageFlags::from_tag: the bit of a flag tag, 0 (None) for any other tag.
from_tag(tag) ==
    IF InSeq(FlagTags, tag) THEN Pow2(IndexOf(FlagTags, tag) - 1) ELSE 0

\* bitflags contains(): bit is a single bit.
contains(flags, bit) == (flags \div bit) % 2 = 1

\* An insert that sets nothing.
insert_nothing(flags, bit) == flags

\* bitflags insert()
insert(flags, bit) == IF contains(flags, bit) THEN flags ELSE flags + bit

RECURSIVE as_tags_from(_, _)
as_tags_from(flags, i) ==
    IF i > Len(FlagTags) THEN <<>>
    ELSE (IF contains(flags, from_tag(FlagTags[i]))
          THEN << <<FlagTags[i], <<"1">> >> >>
          ELSE <<>>) \o as_tags_from(flags, i + 1)

\* MessageFlags::as_tags
as_tags(flags) == as_tags_from(flags, 1)

(***************************************************************************)
(* Library conversions the codec calls                                     *)
(***************************************************************************)
NoValue == -1

HexVal(c) ==
    CASE c = "0" -> 0  [] c = "1" -> 1  [] c = "2" -> 2  [] c = "3" -> 3
      [] c = "4" -> 4  [] c = "5" -> 5  [] c = "6" -> 6  [] c = "7" -> 7
      [] c = "8" -> 8  [] c = "9" -> 9
      [] c \in {"A", "a"} -> 10 [] c \in {"B", "b"} -> 11
      [] c \in {"C", "c"} -> 12 [] c \in {"D", "d"} -> 13
      [] c \in {"E", "e"} -> 14 [] c \in {"F", "f"} -> 15
      [] OTHER -> NoValue

HexChar(d) ==
    <<"0", "1", "2", "3", "4", "5", "6", "7", "8", "9",
      "A", "B", "C", "D", "E", "F">>[d + 1]

U32HexDigits == 8

RECURSIVE StripZeros(_)
StripZeros(ds) ==
    IF ds # <<>> /\ Head(ds) = 0 THEN StripZeros(Tail(ds)) ELSE ds

RECURSIVE HexDigits(_)
\* The digit values of a digit string, <<NoValue>> when a character is no hex
\* digit.
HexDigits(s) ==
    IF s = <<>> THEN <<>>
    ELSE IF HexVal(Head(s)) = NoValue THEN <<NoValue>>
    ELSE LET rest == HexDigits(Tail(s))
         IN  IF rest = <<NoValue>> THEN rest ELSE <<HexVal(Head(s))>> \o rest

\* Option<u32>::None
NoColor == <<NoValue>>

\* u32::from_str_radix(s, 16): an optional '+', then at least one hex digit; a
\* value past u32::MAX is an error.  A u32 is kept as its hex digits, most
\* significant first and without leading zeros (0 is the empty sequence):
\* it fits 32 bits exactly when at most 8 digits remain.
from_str_radix(s) ==
    LET digits == IF s # <<>> /\ Head(s) = "+" THEN Tail(s) ELSE s
        ds == HexDigits(digits)
    IN  IF digits = <<>> \/ ds = <<NoValue>> THEN NoColor
        ELSE IF Len(StripZeros(ds)) > U32HexDigits THEN NoColor
        ELSE StripZeros(ds)

RECURSIVE trim_start_matches(_, _)
trim_start_matches(s, c) ==
    IF s # <<>> /\ Head(s) = c THEN trim_start_matches(Tail(s), c) ELSE s

RECURSIVE UpperHexFrom(_)
UpperHexFrom(ds) ==
    IF ds = <<>> THEN <<>> ELSE <<HexChar(Head(ds))>> \o UpperHexFrom(Tail(ds))

\* {:X}: the upper-case hex digits of a number, no padding; 0 prints as "0".
UpperHex(ds) == IF ds = <<>> THEN <<"0">> ELSE UpperHexFrom(ds)

RECURSIVE PadZero(_, _)
PadZero(s, width) == IF Len(s) >= width THEN s ELSE PadZero(<<"0">> \o s, width)

ColorPadWidth == 4

\* format!("#{color:04X}")
format_color(color) == <<"#">> \o PadZero(UpperHex(color), ColorPadWidth)

DecChar(d) == <<"0", "1", "2", "3", "4", "5", "6", "7", "8", "9">>[d + 1]

RECURSIVE to_string(_)
\* u64::to_string
to_string(n) ==
    IF n < 10 THEN <<DecChar(n)>>
    ELSE Append(to_string(n \div 10), DecChar(n % 10))

(* Uuid: the three spellings of one identifier that Uuid::parse_str reads,   *)
(* the nil identifier, and a string that is no identifier.                   *)
UuidHyphenated == <<"272e342c-5864-4c59-b730-25908cdb7f57">>
UuidUpper      == <<"272E342C-5864-4C59-B730-25908CDB7F57">>
UuidSimple     == <<"272e342c58644c59b73025908cdb7f57">>
UuidNilText    == <<"00000000-0000-0000-0000-000000000000">>
UuidGarbage    == <<"not-a-uuid">>

NilUuid == 0
SomeUuid == 1

\* Uuid::parse_str: Ok(uuid) or NoValue (Err).
parse_str(s) ==
    CASE s \in {UuidHyphenated, UuidUpper, UuidSimple} -> SomeUuid
      [] s = UuidNilText -> NilUuid
      [] OTHER -> NoValue

\* Uuid::hyphenated().to_string(): lower case, hyphenated.
hyphenated(u) == IF u = NilUuid THEN UuidNilText ELSE UuidHyphenated

RECURSIVE split(_, _, _)
\* str::split(sep): always at least one (possibly empty) piece.
split(s, sep, cur) ==
    IF s = <<>> THEN <<cur>>
    ELSE IF Head(s) = sep THEN <<cur>> \o split(Tail(s), sep, <<>>)
    ELSE split(Tail(s), sep, Append(cur, Head(s)))

RECURSIVE join(_, _)
\* [T]::join(sep)
join(pieces, sep) ==
    IF pieces = <<>> THEN <<>>
    ELSE IF Len(pieces) = 1 THEN pieces[1]
    ELSE pieces[1] \o <<sep>> \o join(Tail(pieces), sep)

(***************************************************************************)
(* db/schema.rs: MessageType, extract_message_text                         *)
(***************************************************************************)
NoType == "none"

\* MessageType::from_tmi_command: the message kind of a command, NoType (None)
\* for every other command the parser knows.
from_tmi_command(cmd) ==
    CASE cmd = "PING" -> "Ping"             [] cmd = "PONG" -> "Pong"
      [] cmd = "JOIN" -> "Join"             [] cmd = "PART" -> "Part"
      [] cmd = "PRIVMSG" -> "PrivMsg"       [] cmd = "WHISPER" -> "Whisper"
      [] cmd = "CLEARCHAT" -> "ClearChat"   [] cmd = "CLEARMSG" -> "ClearMsg"
      [] cmd = "GLOBALUSERSTATE" -> "GlobalUserState"
      [] cmd = "NOTICE" -> "Notice"         [] cmd = "RECONNECT" -> "Reconnect"
      [] cmd = "ROOMSTATE" -> "RoomState"   [] cmd = "USERNOTICE" -> "UserNotice"
      [] cmd = "USERSTATE" -> "UserState"
      [] OTHER -> NoType

ActionPrefix == "\\x01ACTION "
ActionSuffix == "\\x01"

\* extract_message_text: strip one leading ':', leading blanks and the
\* CTCP-ACTION wrapper.
extract_message_text(message_text) ==
    LET stripped == IF message_text # <<>> /\ Head(message_text) = ":"
                    THEN Tail(message_text) ELSE message_text
        trimmed == trim_start_matches(stripped, " ")
        is_action == /\ Len(trimmed) >= 2
                     /\ Head(trimmed) = ActionPrefix
                     /\ trimmed[Len(trimmed)] = ActionSuffix
    IN  IF is_action THEN SubSeq(trimmed, 2, Len(trimmed) - 1) ELSE trimmed

RECURSIVE unescape(_)
\* tmi::unescape: the IRCv3 tag-value escapes.
unescape(s) ==
    IF s = <<>> THEN <<>>
    ELSE <<(CASE Head(s) = "\\s" -> " "
              [] Head(s) = "\\:" -> ";"
              [] OTHER -> Head(s))>> \o unescape(Tail(s))

(***************************************************************************)
(* db/schema.rs: StructuredMessage                                         *)
(***************************************************************************)
NoRow == [ok |-> FALSE]

\* IrcMessageRef::tag: the value of the first tag of that name, NoTag if none.
NoTag == <<"\\absent">>

RECURSIVE tag_of(_, _)
tag_of(tl, name) ==
    IF tl = <<>> THEN NoTag
    ELSE IF Head(tl)[1] = name THEN Head(tl)[2]
    ELSE tag_of(Tail(tl), name)

\* The ignored tags without sent-ts.
IgnoredTagsWithoutSentTs == {"room-id", "user-id", "tmi-sent-ts"}

\* Tag::RoomId | Tag::UserId | Tag::TmiSentTs | Tag::SentTs => ()
IgnoredTags == {"room-id", "user-id", "tmi-sent-ts", "sent-ts"}

\* One arm of the match in from_unstructured's loop over the tags.
decode_tag(acc, tag, value) ==
    CASE tag = "id" ->
            IF parse_str(value) # NoValue
            THEN [acc EXCEPT !.id = parse_str(value)]
            ELSE [acc EXCEPT !.extra_tags = Append(@, <<"id", value>>)]
      [] tag = "login" -> [acc EXCEPT !.user_login = value]
      [] tag = "display-name" -> [acc EXCEPT !.display_name = value]
      [] tag = "color" ->
            [acc EXCEPT !.color = from_str_radix(trim_start_matches(value, "#"))]
      [] tag = "user-type" -> [acc EXCEPT !.user_type = value]
      [] tag = "badges" -> [acc EXCEPT !.badges = split(value, ",", <<>>)]
      [] tag = "badge-info" -> [acc EXCEPT !.badge_info = value]
      [] tag = "emotes" -> [acc EXCEPT !.emotes = value]
      [] tag = "client-nonce" -> [acc EXCEPT !.client_nonce = value]
      [] tag = "flags" -> [acc EXCEPT !.automod_flags = value]
      [] tag \in IgnoredTags -> acc
      [] OTHER ->
            IF from_tag(tag) # 0
            THEN IF value = <<"1">>
                 THEN [acc EXCEPT !.message_flags = insert(@, from_tag(tag))]
                 ELSE acc
            ELSE [acc EXCEPT !.extra_tags = Append(@, <<tag, value>>)]

RECURSIVE decode_tags(_, _)
decode_tags(acc, tl) ==
    IF tl = <<>> THEN acc
    ELSE decode_tags(decode_tag(acc, Head(tl)[1], Head(tl)[2]), Tail(tl))

\* The text match of from_unstructured; [ok |-> FALSE] when a USERNOTICE has
\* no system-msg tag.
message_text(message_type, raw) ==
    CASE message_type = "PrivMsg" ->
            [ok |-> TRUE,
             text |-> IF raw.has_params THEN extract_message_text(raw.params)
                      ELSE <<>>]
      [] message_type = "ClearChat" ->
            IF raw.has_params
            THEN [ok |-> TRUE,
                  text |-> IF tag_of(raw.tags, "ban-duration") # NoTag
                           THEN extract_message_text(raw.params)
                                \o <<" has been timed out for ">>
                                \o tag_of(raw.tags, "ban-duration")
                                \o <<" seconds">>
                           ELSE extract_message_text(raw.params)
                                \o <<" has been banned">>]
            ELSE [ok |-> TRUE, text |-> <<"Chat has been cleared">>]
      [] message_type = "UserNotice" ->
            IF tag_of(raw.tags, "system-msg") = NoTag THEN [ok |-> FALSE]
            ELSE [ok |-> TRUE,
                  text |-> IF raw.has_params
                           THEN unescape(tag_of(raw.tags, "system-msg"))
                                \o <<" ">> \o extract_message_text(raw.params)
                           ELSE unescape(tag_of(raw.tags, "system-msg"))]
      [] OTHER -> [ok |-> TRUE, text |-> <<>>]

\* StructuredMessage::from_unstructured; NoRow for every Err.
from_unstructured(message) ==
    LET raw == message.raw
        message_type == from_tmi_command(raw.cmd)
        text == message_text(message_type, raw)
        user_login0 ==
            IF message_type = "ClearChat" /\ raw.has_params
            THEN extract_message_text(raw.params)
            ELSE raw.nick
        start == [ok |-> TRUE,
                  channel_id |-> message.channel_id,
                  channel_login |-> trim_start_matches(raw.channel, "#"),
                  timestamp |-> message.timestamp,
                  id |-> NilUuid,
                  message_type |-> message_type,
                  user_id |-> message.user_id,
                  user_login |-> user_login0,
                  display_name |-> <<>>,
                  color |-> NoColor,
                  user_type |-> <<>>,
                  badges |-> <<>>,
                  badge_info |-> <<>>,
                  client_nonce |-> <<>>,
                  emotes |-> <<>>,
                  automod_flags |-> <<>>,
                  text |-> IF text.ok THEN text.text ELSE <<>>,
                  message_flags |-> 0,
                  extra_tags |-> <<>>]
    IN  IF ~raw.parses THEN NoRow
        ELSE IF message_type = NoType THEN NoRow
        ELSE IF ~text.ok THEN NoRow
        ELSE decode_tags(start, raw.tags)

\* The fields written whether they are empty or not.
all_tags_unguarded(m) ==
    << <<"tmi-sent-ts", to_string(m.timestamp)>> >>
    \o as_tags(m.message_flags)
    \o << <<"id", hyphenated(m.id)>>,
          <<"room-id", m.channel_id>>,
          <<"user-id", m.user_id>>,
          <<"login", m.user_login>>,
          <<"client-nonce", m.client_nonce>>,
          <<"display-name", m.display_name>>,
          <<"badges", join(m.badges, ",")>>,
          <<"badge-info", m.badge_info>>,
          <<"flags", m.automod_flags>>,
          <<"user-type", m.user_type>>,
          <<"emotes", m.emotes>> >>
    \o m.extra_tags

\* StructuredMessage::all_tags
all_tags(m) ==
    << <<"tmi-sent-ts", to_string(m.timestamp)>> >>
    \o as_tags(m.message_flags)
    \o (IF m.id # NilUuid THEN << <<"id", hyphenated(m.id)>> >> ELSE <<>>)
    \o (IF m.channel_id # <<>> THEN << <<"room-id", m.channel_id>> >> ELSE <<>>)
    \o (IF m.user_id # <<>> THEN << <<"user-id", m.user_id>> >> ELSE <<>>)
    \o (IF m.user_login # <<>> THEN << <<"login", m.user_login>> >> ELSE <<>>)
    \o (IF m.client_nonce # <<>>
        THEN << <<"client-nonce", m.client_nonce>> >> ELSE <<>>)
    \o (IF m.display_name # <<>>
        THEN << <<"display-name", m.display_name>> >> ELSE <<>>)
    \o << <<"badges", join(m.badges, ",")>> >>
    \o << <<"badge-info", m.badge_info>> >>
    \o (IF m.color # NoColor THEN << <<"color", format_color(m.color)>> >>
        ELSE <<>>)
    \o << <<"flags", m.automod_flags>>,
          <<"user-type", m.user_type>>,
          <<"emotes", m.emotes>> >>
    \o m.extra_tags

(***************************************************************************)
(* db/mod.rs: read_channel's partition of a long range into windows        *)
(***************************************************************************)
CHANNEL_MULTI_QUERY_SIZE_DAYS == 14

\* Duration::days(n), in ticks
Days(n) == n * TicksPerDay

\* read_channel never splitting its range.
never_multi_query(from, to) == FALSE

\* to - from > Duration::days(CHANNEL_MULTI_QUERY_SIZE_DAYS)
is_multi_query(from, to) == to - from > Days(CHANNEL_MULTI_QUERY_SIZE_DAYS)

\* The last cursor run to current_to, past the end of the range.
last_cursor_overshoot(current_from, current_to, to) == <<current_from, current_to>>

\* The cursor opened when the loop breaks: next_cursor(.., current_from, to).
last_cursor(current_from, current_to, to) == <<current_from, to>>

RECURSIVE window_loop(_, _, _, _)
\* The loop of read_channel: one cursor for (current_from, current_to), both
\* advanced by the interval, and once current_to is past to, a last cursor up
\* to to.
window_loop(acc, current_from, current_to, to) ==
    LET interval == Days(CHANNEL_MULTI_QUERY_SIZE_DAYS)
        pushed == Append(acc, <<current_from, current_to>>)
    IN  IF current_to + interval > to
        THEN Append(pushed,
                    last_cursor(current_from + interval, current_to + interval, to))
        ELSE window_loop(pushed, current_from + interval, current_to + interval, to)

\* The cursors of a multi-window read, in the order the loop opens them.
multi_query_windows(from, to) ==
    window_loop(<<>>, from, from + Days(CHANNEL_MULTI_QUERY_SIZE_DAYS), to)

\* The routing layer hands over from < to.
InitWindows ==
    /\ range \in { <<f, f + len>> : f \in 0..Days(MaxFromDays),
                                    len \in 1..Days(MaxLenDays) }
    /\ streams = <<>>
    /\ wpc = "call"
    /\ CodecIdle
    /\ EngineIdle
    /\ FlagsIdle
    /\ LoopIdle
    /\ TextIdle
    /\ HandlersIdle

\* read_channel on a range longer than 14 days: the windows' cursors.
OpenMultiQuery ==
    /\ wpc = "call"
    /\ is_multi_query(range[1], range[2])
    /\ streams' = multi_query_windows(range[1], range[2])
    /\ wpc' = "multi"
    /\ UNCHANGED range
    /\ UNCHANGED <<codecVars, engineVars, flagVars, loopVars,
                   textVars, handlerVars>>

\* read_channel on a range of at most 14 days: one cursor over the range.
OpenSingleQuery ==
    /\ wpc = "call"
    /\ ~is_multi_query(range[1], range[2])
    /\ streams' = << <<range[1], range[2]>> >>
    /\ wpc' = "single"
    /\ UNCHANGED range
    /\ UNCHANGED <<codecVars, engineVars, flagVars, loopVars,
                   textVars, handlerVars>>

NextWindows == OpenMultiQuery \/ OpenSingleQuery

SpecWindows == InitWindows /\ [][NextWindows]_vars

\* The ticks a list of windows covers, each window half open.
Covered(ws) == UNION { ws[i][1]..(ws[i][2] - 1) : i \in 1..Len(ws) }

\* C4: the cursors of a multi-window read are consecutive windows of at most 14
\* days that do not overlap; the first starts at from, the last ends at to and
\* together they cover exactly the ticks of [from, to).
C4_WindowsPartition ==
    wpc = "multi" =>
        /\ Len(streams) >= 1
        /\ streams[1][1] = range[1]
        /\ streams[Len(streams)][2] = range[2]
        /\ \A i \in 1..Len(streams) :
              /\ streams[i][1] <= streams[i][2]
              /\ streams[i][2] - streams[i][1] <= Days(CHANNEL_MULTI_QUERY_SIZE_DAYS)
        /\ \A i \in 1..(Len(streams) - 1) : streams[i][2] = streams[i + 1][1]
        /\ \A i, j \in 1..Len(streams) :
              i # j => (streams[i][1]..(streams[i][2] - 1))
                       \cap (streams[j][1]..(streams[j][2] - 1)) = {}
        /\ Covered(streams) = range[1]..(range[2] - 1)

\* A multi-window read of a range that is no multiple of 14 days: three
\* windows, the last one shorter.
C4_Witness ==
    /\ wpc = "multi"
    /\ Len(streams) = 3
    /\ streams[3][2] - streams[3][1] < Days(CHANNEL_MULTI_QUERY_SIZE_DAYS)
    /\ streams[3][1] < streams[3][2]

\* ceil(a / b) for b > 0
CeilDiv(a, b) == (a + b - 1) \div b

\* C5: a multi-window read opens ceil(L / 14 days) cursors, L the length of the
\* range, also when L is a multiple of 14 days.
C5_CeilWindows ==
    wpc = "multi" =>
        Len(streams) = CeilDiv(range[2] - range[1], Days(CHANNEL_MULTI_QUERY_SIZE_DAYS))

(***************************************************************************)
(* Codec inputs: the lines the conversion is run on                        *)
(***************************************************************************)
\* The parsed shape of a raw line, without its tags, and the record's own
\* channel id, user id and timestamp.
Headers ==
    { [parses |-> TRUE, cmd |-> "PRIVMSG", nick |-> <<"supibot">>,
       channel |-> <<"#", "forsen">>, has_params |-> TRUE,
       params |-> <<":", "+join">>,
       channel_id |-> <<"22484632">>, user_id |-> <<"68136884">>,
       timestamp |-> 1709],
      [parses |-> TRUE, cmd |-> "PRIVMSG", nick |-> <<"supibot">>,
       channel |-> <<"#", "forsen">>, has_params |-> TRUE,
       params |-> <<":", ActionPrefix, "waves", ActionSuffix>>,
       channel_id |-> <<"22484632">>, user_id |-> <<>>, timestamp |-> 0],
      [parses |-> TRUE, cmd |-> "CLEARCHAT", nick |-> <<>>,
       channel |-> <<"#", "forsen">>, has_params |-> TRUE,
       params |-> <<":", "baduser">>,
       channel_id |-> <<"22484632">>, user_id |-> <<"68136884">>,
       timestamp |-> 42],
      [parses |-> TRUE, cmd |-> "CLEARCHAT", nick |-> <<>>,
       channel |-> <<"#", "forsen">>, has_params |-> FALSE, params |-> <<>>,
       channel_id |-> <<"22484632">>, user_id |-> <<>>, timestamp |-> 42],
      [parses |-> TRUE, cmd |-> "USERNOTICE", nick |-> <<>>,
       channel |-> <<"#", "forsen">>, has_params |-> FALSE, params |-> <<>>,
       channel_id |-> <<"22484632">>, user_id |-> <<"68136884">>,
       timestamp |-> 7],
      [parses |-> TRUE, cmd |-> "ROOMSTATE", nick |-> <<>>,
       channel |-> <<"#", "forsen">>, has_params |-> FALSE, params |-> <<>>,
       channel_id |-> <<"22484632">>, user_id |-> <<>>, timestamp |-> 10],
      [parses |-> TRUE, cmd |-> "CAP", nick |-> <<>>,
       channel |-> <<>>, has_params |-> FALSE, params |-> <<>>,
       channel_id |-> <<>>, user_id |-> <<>>, timestamp |-> 10],
      [parses |-> FALSE, cmd |-> "", nick |-> <<>>,
       channel |-> <<>>, has_params |-> FALSE, params |-> <<>>,
       channel_id |-> <<"22484632">>, user_id |-> <<>>, timestamp |-> 10] }

\* Tags that come several to a line.
CoreTags ==
    { <<"id", UuidHyphenated>>,
      <<"id", UuidGarbage>>,
      <<"login", <<"forsen">> >>,
      <<"display-name", <<"Supibot">> >>,
      <<"color", <<"#", "1", "E", "9", "0", "F", "F">> >>,
      <<"badges", <<"vip/1", ",", "subscriber/60">> >>,
      <<"subscriber", <<"1">> >>,
      <<"mod", <<"0">> >>,
      <<"system-msg", <<"5", "\\s", "raiders">> >>,
      <<"ban-duration", <<"600">> >>,
      <<"msg-id", <<"raid">> >> }

\* Tags tried one to a line: every recognised tag with the values that steer
\* its arm of the match.
SingleTags ==
    CoreTags
    \cup { <<"id", v>> : v \in {UuidUpper, UuidSimple, UuidNilText, <<>>} }
    \cup { <<"color", v>> :
             v \in { <<>>, <<"#">>, <<"r", "e", "d">>,
                     <<"#", "0", "0", "0", "0", "F", "F">>,
                     <<"#", "0", "0", "0", "0", "0", "0">>,
                     <<"#", "1", "e", "9", "0", "f", "f">>,
                     <<"1", "E", "9", "0", "F", "F">>,
                     <<"#", "F", "F">>,
                     <<"#", "F", "F", "F", "F", "F", "F", "F", "F">>,
                     <<"#", "1", "F", "F", "F", "F", "F", "F", "F", "F">> } }
    \cup { <<t, v>> : t \in {"login", "display-name", "user-type", "badge-info",
                             "emotes", "client-nonce", "flags", "sent-ts",
                             "msg-id"},
                      v \in { <<>>, <<"x">> } }
    \cup { <<"badges", v>> : v \in { <<>>, <<"vip/1">>, <<"vip/1", ",">> } }
    \cup { <<FlagTags[i], v>> : i \in 1..Len(FlagTags),
                                v \in { <<>>, <<"0">>, <<"1">>, <<"30">> } }

\* The identity tags the feed sends agree with the record built from the line.
IdentityTags(h) ==
    { <<"room-id", h.channel_id>>,
      <<"user-id", h.user_id>>,
      <<"tmi-sent-ts", to_string(h.timestamp)>> }

DistinctNames(tl) ==
    \A i, j \in 1..Len(tl) : i # j => tl[i][1] # tl[j][1]

TagLists(h) ==
    { <<t>> : t \in SingleTags \cup IdentityTags(h) }
    \cup { tl \in UNION { [1..k -> CoreTags \cup IdentityTags(h)] : k \in 0..MaxTags } :
             DistinctNames(tl) }

LinesOf(h) ==
    { [channel_id |-> h.channel_id, user_id |-> h.user_id,
       timestamp |-> h.timestamp,
       raw |-> [parses |-> h.parses, cmd |-> h.cmd, nick |-> h.nick,
                channel |-> h.channel, has_params |-> h.has_params,
                params |-> h.params, tags |-> tl]] : tl \in TagLists(h) }

Lines == UNION { LinesOf(h) : h \in Headers }

(***************************************************************************)
(* The codec as a state machine: a line is decoded, the row is encoded     *)
(***************************************************************************)
InitCodec ==
    /\ line \in Lines
    /\ row = NoRow
    /\ tags = <<>>
    /\ cpc = "raw"
    /\ WindowsIdle
    /\ EngineIdle
    /\ FlagsIdle
    /\ LoopIdle
    /\ TextIdle
    /\ HandlersIdle

\* The ingestion path converts the line; a line that does not convert is
\* logged and dropped.
Decode ==
    /\ cpc = "raw"
    /\ row' = from_unstructured(line)
    /\ cpc' = IF from_unstructured(line).ok THEN "decoded" ELSE "rejected"
    /\ UNCHANGED <<line, tags>>
    /\ UNCHANGED <<windowVars, engineVars, flagVars, loopVars,
                   textVars, handlerVars>>

\* The serving path rebuilds the tag list of the row.
Encode ==
    /\ cpc = "decoded"
    /\ tags' = all_tags(row)
    /\ cpc' = "encoded"
    /\ UNCHANGED <<line, row>>
    /\ UNCHANGED <<windowVars, engineVars, flagVars, loopVars,
                   textVars, handlerVars>>

NextCodec == Decode \/ Encode

SpecCodec == InitCodec /\ [][NextCodec]_vars

\* Rows as the store returns them: every field that all_tags tests empty and
\* not, and the extra tags decode can have left: none, unrecognized ones, an
\* id that was no UUID.
StoredRows ==
    { [ok |-> TRUE,
       channel_id |-> f[1],
       channel_login |-> <<"forsen">>,
       timestamp |-> ts,
       id |-> id,
       message_type |-> "PrivMsg",
       user_id |-> f[2],
       user_login |-> f[3],
       display_name |-> f[5],
       color |-> color,
       user_type |-> <<>>,
       badges |-> badges,
       badge_info |-> <<"subscriber/65">>,
       client_nonce |-> f[4],
       emotes |-> <<>>,
       automod_flags |-> <<>>,
       text |-> <<"+join">>,
       message_flags |-> flags,
       extra_tags |-> extra] :
         f \in [1..5 -> { <<>>, <<"x">> }],
         ts \in {0, 1709},
         id \in {NilUuid, SomeUuid},
         color \in {NoColor, <<1, 14, 9, 0, 15, 15>>},
         badges \in { <<>>, << <<"vip/1">> >>, << <<"vip/1">>, <<"subscriber/60">> >> },
         flags \in {0, 5},
         extra \in { <<>>,
                     << <<"msg-id", <<"raid">> >>, <<"ban-duration", <<"600">> >> >>,
                     << <<"id", UuidGarbage>>, <<"msg-id", <<"raid">> >> >> } }

\* A row read from the store is about to be served.
InitRows ==
    /\ line = [ok |-> FALSE]
    /\ row \in StoredRows
    /\ tags = <<>>
    /\ cpc = "decoded"
    /\ WindowsIdle
    /\ EngineIdle
    /\ FlagsIdle
    /\ LoopIdle
    /\ TextIdle
    /\ HandlersIdle

SpecEncode == InitRows /\ [][Encode]_vars

(***************************************************************************)
(* C1: round trip of the tags                                              *)
(***************************************************************************)
\* A tag the round trip owes: its value is not empty, and it is not a flag tag
\* sent as "0".
Owed(t) == t[2] # <<>> /\ ~(from_tag(t[1]) # 0 /\ t[2] = <<"0">>)

UpperHexChars ==
    {"0", "1", "2", "3", "4", "5", "6", "7", "8", "9", "A", "B", "C", "D", "E", "F"}

\* A tag as the feed writes it: a colour is '#' and six upper-case hex digits,
\* an id is a hyphenated lower-case identifier other than nil, a flag tag is
\* "0" or "1", and the tag is not sent-ts.
FeedTag(t) ==
    /\ t[1] = "color" =>
          /\ Len(t[2]) = 7
          /\ t[2][1] = "#"
          /\ \A i \in 2..7 : t[2][i] \in UpperHexChars
    /\ t[1] = "id" => t[2] = UuidHyphenated
    /\ from_tag(t[1]) # 0 => t[2] \in { <<"0">>, <<"1">> }
    /\ t[1] # "sent-ts"

\* C1, on the lines whose tags are all written as the feed writes them: every
\* tag of the line with a non-empty value, other than a flag tag valued "0",
\* is in the encoded list under the same name with the same value.
C1_RoundTripFeed ==
    (cpc = "encoded" /\ \A i \in 1..Len(line.raw.tags) : FeedTag(line.raw.tags[i])) =>
        \A i \in 1..Len(line.raw.tags) :
            Owed(line.raw.tags[i]) => InSeq(tags, line.raw.tags[i])

\* C1: once a line is decoded and encoded again, every tag of the line with a
\* non-empty value, other than a flag tag valued "0", is in the encoded list
\* under the same name with the same value.
C1_RoundTrip ==
    cpc = "encoded" =>
        \A i \in 1..Len(line.raw.tags) :
            Owed(line.raw.tags[i]) => InSeq(tags, line.raw.tags[i])

(***************************************************************************)
(* The store (message_structured) and the staging buffer                   *)
(***************************************************************************)
\* The rows differ in channel, user and timestamp; every read is for channel
\* ReadChannel and, where it takes a user, for ReadUser.
RowScopes == { <<"c1", "u1">>, <<"c1", "u2">>, <<"c2", "u1">> }

RowDays == {5, 12, 20, 30}

ReadChannel == "c1"

ReadUser == "u1"

\* A range of exactly 14 days and one of 30 days.
ReadRanges == { <<Days(10), Days(24)>>, <<Days(10), Days(40)>> }

AllRows == buffer \cup store \cup gone

\* ORDER BY timestamp ASC | DESC; rows of one timestamp in the order of their
\* ids.
Precedes(a, b, reverse) ==
    IF a.timestamp # b.timestamp
    THEN IF reverse THEN a.timestamp > b.timestamp ELSE a.timestamp < b.timestamp
    ELSE a.id < b.id

RECURSIVE order_by_timestamp(_, _)
order_by_timestamp(S, reverse) ==
    IF S = {} THEN <<>>
    ELSE LET first == CHOOSE a \in S : \A b \in S \ {a} : Precedes(a, b, reverse)
         IN  <<first>> \o order_by_timestamp(S \ {first}, reverse)

\* The staging buffer's merge_for_query: the buffered rows of the channel (and
\* of the user, when one is given) inside [from, to), in the order asked for.
NoUser == "none"

merge_for_query(held, channel_id, user_id, from, to, reverse) ==
    order_by_timestamp(
        { r \in held : /\ r.channel_id = channel_id
                       /\ user_id # NoUser => r.user_id = user_id
                       /\ r.timestamp >= from
                       /\ r.timestamp < to },
        reverse)

\* The ingestion's accept: a decoded row enters the staging buffer.  The feed
\* delivers lines in the order of their timestamps.
Accept ==
    /\ Cardinality(AllRows) < MaxRows
    /\ \E sc \in RowScopes, d \in RowDays :
          /\ \A r \in AllRows : r.timestamp <= Days(d)
          /\ buffer' = buffer \cup { [id |-> Cardinality(AllRows) + 1,
                                      channel_id |-> sc[1],
                                      user_id |-> sc[2],
                                      timestamp |-> Days(d)] }
    /\ UNCHANGED <<store, batch, gone, rd>>
    /\ UNCHANGED <<codecVars, windowVars, flagVars, loopVars,
                   textVars, handlerVars>>

\* The write path stores the buffered rows as one batch.
Flush ==
    /\ batch = {}
    /\ buffer # {}
    /\ store' = store \cup buffer
    /\ batch' = buffer
    /\ UNCHANGED <<buffer, gone, rd>>
    /\ UNCHANGED <<codecVars, windowVars, flagVars, loopVars,
                   textVars, handlerVars>>

\* Once the batch is confirmed stored, its rows leave the buffer, all at once.
Evict ==
    /\ batch # {}
    /\ buffer' = buffer \ batch
    /\ batch' = {}
    /\ UNCHANGED <<store, gone, rd>>
    /\ UNCHANGED <<codecVars, windowVars, flagVars, loopVars,
                   textVars, handlerVars>>

\* The store loses a row (a deletion, an expiry).  Followed where a read can
\* be caught by it: between the count and the row query of a point read.
StoreDrop ==
    /\ rd.pc = "row"
    /\ \E r \in store \ buffer :
          /\ store' = store \ {r}
          /\ gone' = gone \cup {r}
    /\ UNCHANGED <<buffer, batch, rd>>
    /\ UNCHANGED <<codecVars, windowVars, flagVars, loopVars,
                   textVars, handlerVars>>

(***************************************************************************)
(* db/mod.rs: the queries                                                  *)
(***************************************************************************)
\* SELECT .. WHERE channel_id = ? AND timestamp >= ? AND timestamp < ?
\* ORDER BY timestamp {suffix}
select_channel(st, channel_id, from, to, reverse) ==
    order_by_timestamp(
        { r \in st : /\ r.channel_id = channel_id
                     /\ r.timestamp >= from
                     /\ r.timestamp < to },
        reverse)

\* SELECT .. WHERE channel_id = ? AND user_id = ? AND timestamp >= ? AND
\* timestamp < ? ORDER BY timestamp {suffix}
select_user(st, channel_id, user_id, from, to, reverse) ==
    order_by_timestamp(
        { r \in st : /\ r.channel_id = channel_id
                     /\ r.user_id = user_id
                     /\ r.timestamp >= from
                     /\ r.timestamp < to },
        reverse)

\* SELECT .. WHERE channel_id = ? AND user_id = ? AND
\* positionCaseInsensitive(text, ?) != 0 ORDER BY timestamp {suffix}, for a
\* search string that the text of every row contains.
select_search(st, channel_id, user_id, reverse) ==
    order_by_timestamp(
        { r \in st : r.channel_id = channel_id /\ r.user_id = user_id },
        reverse)

\* SELECT count() FROM (SELECT timestamp .. LIMIT 1)
probe_count(st, channel_id, from, to) ==
    IF \E r \in st : /\ r.channel_id = channel_id
                     /\ r.timestamp >= from
                     /\ r.timestamp < to
    THEN 1 ELSE 0

\* The rows a point read is about: of the channel, and of the user for
\* read_random_user_line.
point_scope(st, op) ==
    { r \in st : /\ r.channel_id = ReadChannel
                 /\ op = "random_user" => r.user_id = ReadUser }

\* The rows of a cursor when the store runs its query.
run_cursor(st, c, reverse) ==
    CASE c.kind = "channel" -> select_channel(st, ReadChannel, c.from, c.to, reverse)
      [] c.kind = "user" -> select_user(st, ReadChannel, ReadUser, c.from, c.to, reverse)
      [] OTHER -> select_search(st, ReadChannel, ReadUser, reverse)

\* FlushBufferResponse::empty(params)
empty_buffer_response(held, reverse) == <<>>

\* read_channel reading the store alone.
channel_buffer_skipped(held, from, to, reverse) == <<>>

\* read_channel: FlushBufferResponse::new(flush_buffer, channel_id, None, ..)
channel_buffer_response(held, from, to, reverse) ==
    merge_for_query(held, ReadChannel, NoUser, from, to, reverse)

\* read_user reading the store alone.
user_buffer_skipped(held, from, to, reverse) == <<>>

\* read_user: FlushBufferResponse::new(flush_buffer, channel_id, Some(user_id), ..)
user_buffer_response(held, from, to, reverse) ==
    merge_for_query(held, ReadChannel, ReadUser, from, to, reverse)

\* The search read merging the staging buffer like read_user does.
search_buffer_merged(held, reverse) ==
    merge_for_query(held, ReadChannel, ReadUser, 0, Days(MaxLenDays), reverse)

\* search_user_logs: FlushBufferResponse::empty(params)
search_buffer_response(held, reverse) == empty_buffer_response(held, reverse)

RECURSIVE Reversed(_)
Reversed(seq) ==
    IF seq = <<>> THEN <<>> ELSE Append(Reversed(Tail(seq)), Head(seq))

\* The window list left in the order the loop built it.
order_streams_unreversed(ws, reverse) == ws

\* if params.reverse { streams.reverse(); }
order_streams(ws, reverse) == IF reverse THEN Reversed(ws) ELSE ws

\* The probe's answer ignored.
never_not_found(count) == FALSE

\* if count == 0 { return Err(Error::NotFound); }
probe_not_found(count) == count = 0

AsCursors(ws, kind) ==
    [i \in 1..Len(ws) |-> [kind |-> kind, from |-> ws[i][1], to |-> ws[i][2]]]

DataQueries(ws) ==
    [i \in 1..Len(ws) |-> [kind |-> "data", from |-> ws[i][1], to |-> ws[i][2]]]

Done(r, result) == [r EXCEPT !.pc = "done", !.result = result]

(***************************************************************************)
(* db/mod.rs: the reads, one action for each stretch between two awaits    *)
(***************************************************************************)
RangeOps == {"channel", "user"}

PointOps == {"random_channel", "random_user"}

\* A handler calls one of the reads.  rd.before keeps the rows accepted so far.
Call ==
    /\ rd.pc = "idle"
    /\ \E op \in RangeOps \cup PointOps \cup {"search"},
          rng \in ReadRanges \cup { <<0, 0>> }, rev \in BOOLEAN :
          /\ op \in RangeOps <=> rng \in ReadRanges
          /\ op \in PointOps => ~rev
          /\ rd' = [IdleRead EXCEPT
                      !.op = op,
                      !.pc = CASE op \in RangeOps -> "buffer"
                               [] op \in PointOps -> "count"
                               [] OTHER -> "search",
                      !.reverse = rev, !.from = rng[1], !.to = rng[2],
                      !.before = buffer \cup store]
    /\ UNCHANGED <<store, buffer, batch, gone>>
    /\ UNCHANGED <<codecVars, windowVars, flagVars, loopVars,
                   textVars, handlerVars>>

\* read_channel, read_user: the buffer response is built first.
BufferResponse ==
    /\ rd.pc = "buffer"
    /\ rd' = [rd EXCEPT
                !.buf = IF rd.op = "channel"
                        THEN channel_buffer_response(buffer, rd.from, rd.to, rd.reverse)
                        ELSE user_buffer_response(buffer, rd.from, rd.to, rd.reverse),
                !.merged = TRUE,
                !.pc = IF rd.op = "channel" /\ is_multi_query(rd.from, rd.to)
                       THEN "probe" ELSE "query"]
    /\ UNCHANGED <<store, buffer, batch, gone>>
    /\ UNCHANGED <<codecVars, windowVars, flagVars, loopVars,
                   textVars, handlerVars>>

\* read_channel past 14 days: the probe over the whole range, then either
\* NotFound or a cursor for each window.
ChannelProbe ==
    /\ rd.pc = "probe"
    /\ \/ rd' = Done([rd EXCEPT !.queries = <<[kind |-> "probe", from |-> rd.from,
                                               to |-> rd.to]>>],
                     "StoreError")
       \/ LET count == probe_count(store, ReadChannel, rd.from, rd.to)
              ws == multi_query_windows(rd.from, rd.to)
              probed == [rd EXCEPT !.count = count,
                                   !.queries = <<[kind |-> "probe", from |-> rd.from,
                                                  to |-> rd.to]>>]
          IN  rd' = IF probe_not_found(count)
                    THEN Done(probed, "NotFound")
                    ELSE [probed EXCEPT
                            !.queries = @ \o DataQueries(ws),
                            !.cursors = AsCursors(order_streams(ws, rd.reverse),
                                                  "channel"),
                            !.result = "Stream",
                            !.pc = "stream"]
    /\ UNCHANGED <<store, buffer, batch, gone>>
    /\ UNCHANGED <<codecVars, windowVars, flagVars, loopVars,
                   textVars, handlerVars>>

\* read_channel up to 14 days, read_user: one query over the range.
RangeQuery ==
    /\ rd.pc = "query"
    /\ rd' = [rd EXCEPT
                !.queries = <<[kind |-> "data", from |-> rd.from, to |-> rd.to]>>,
                !.cursors = <<[kind |-> rd.op, from |-> rd.from, to |-> rd.to]>>,
                !.result = "Stream",
                !.pc = "stream"]
    /\ UNCHANGED <<store, buffer, batch, gone>>
    /\ UNCHANGED <<codecVars, windowVars, flagVars, loopVars,
                   textVars, handlerVars>>

\* search_user_logs: an empty buffer response and one query.
SearchQuery ==
    /\ rd.pc = "search"
    /\ rd' = [rd EXCEPT
                !.buf = search_buffer_response(buffer, rd.reverse),
                !.queries = <<[kind |-> "data", from |-> rd.from, to |-> rd.to]>>,
                !.cursors = <<[kind |-> "search", from |-> rd.from, to |-> rd.to]>>,
                !.result = "Stream",
                !.pc = "stream"]
    /\ UNCHANGED <<store, buffer, batch, gone>>
    /\ UNCHANGED <<codecVars, windowVars, flagVars, loopVars,
                   textVars, handlerVars>>

\* The stream pulls its next cursor: the store runs the query, or fails.
StreamNext ==
    /\ rd.pc = "stream"
    /\ \/ rd' = Done(rd, "StoreError")
       \/ rd' = [rd EXCEPT
                   !.out = @ \o run_cursor(store, Head(rd.cursors), rd.reverse),
                   !.cursors = Tail(@),
                   !.pc = IF Tail(rd.cursors) = <<>> THEN "done" ELSE "stream"]
    /\ UNCHANGED <<store, buffer, batch, gone>>
    /\ UNCHANGED <<codecVars, windowVars, flagVars, loopVars,
                   textVars, handlerVars>>

\* A row no query returned.
DefaultRow == [id |-> 0, channel_id |-> "", user_id |-> "", timestamp |-> 0]

\* fetch_optional()'s None answered with a default row.
unwrap_or_default(found) ==
    IF found = {} THEN [result |-> "Row", out |-> <<DefaultRow>>]
    ELSE [result |-> "Row", out |-> <<CHOOSE r \in found : TRUE>>]

\* .fetch_optional().await?.ok_or(Error::NotFound)?, found being the row the
\* store returned, if any.
ok_or_not_found(found) ==
    IF found = {} THEN [result |-> "NotFound", out |-> <<>>]
    ELSE [result |-> "Row", out |-> <<CHOOSE r \in found : TRUE>>]

\* read_random_channel_line, read_random_user_line: the count, NotFound when
\* it is zero, else a uniform offset below it.
RandomCount ==
    /\ rd.pc = "count"
    /\ \/ rd' = Done([rd EXCEPT !.queries = <<[kind |-> "count", from |-> 0, to |-> 0]>>],
                     "StoreError")
       \/ LET total_count == Cardinality(point_scope(store, rd.op))
              counted == [rd EXCEPT !.count = total_count,
                                    !.queries = <<[kind |-> "count", from |-> 0,
                                                   to |-> 0]>>]
          IN  IF total_count = 0
              THEN rd' = Done(counted, "NotFound")
              ELSE \E offset \in 0..(total_count - 1) :
                      rd' = [counted EXCEPT !.offset = offset, !.pc = "row"]
    /\ UNCHANGED <<store, buffer, batch, gone>>
    /\ UNCHANGED <<codecVars, windowVars, flagVars, loopVars,
                   textVars, handlerVars>>

\* The row query: the timestamp at the offset in the store's own order (none
\* when fewer rows are left), then the first row of the scope at that
\* timestamp.
RandomRow ==
    /\ rd.pc = "row"
    /\ LET scope == point_scope(store, rd.op)
           asked == [rd EXCEPT !.queries = Append(@, [kind |-> "row", from |-> 0,
                                                      to |-> 0])]
       IN  \/ rd' = Done(asked, "StoreError")
           \/ /\ rd.offset >= Cardinality(scope)
              /\ rd' = Done([asked EXCEPT !.out = ok_or_not_found({}).out],
                            ok_or_not_found({}).result)
           \/ /\ rd.offset < Cardinality(scope)
              /\ \E at \in scope, r \in scope :
                    /\ r.timestamp = at.timestamp
                    /\ rd' = Done([asked EXCEPT !.out = ok_or_not_found({r}).out],
                                  ok_or_not_found({r}).result)
    /\ UNCHANGED <<store, buffer, batch, gone>>
    /\ UNCHANGED <<codecVars, windowVars, flagVars, loopVars,
                   textVars, handlerVars>>

\* The handler has its answer; the next request may come.
Return ==
    /\ rd.pc = "done"
    /\ rd' = IdleRead
    /\ UNCHANGED <<store, buffer, batch, gone>>
    /\ UNCHANGED <<codecVars, windowVars, flagVars, loopVars,
                   textVars, handlerVars>>

Init ==
    /\ EngineIdle
    /\ CodecIdle
    /\ WindowsIdle
    /\ FlagsIdle
    /\ LoopIdle
    /\ TextIdle
    /\ HandlersIdle

Next ==
    \/ Accept
    \/ Flush
    \/ Evict
    \/ StoreDrop
    \/ Call
    \/ BufferResponse
    \/ ChannelProbe
    \/ RangeQuery
    \/ SearchQuery
    \/ StreamNext
    \/ RandomCount
    \/ RandomRow
    \/ Return

Spec == Init /\ [][Next]_vars

\* The stream's rows: the buffer slice before the store's rows when the order
\* is descending, after them when it is ascending.
Combined(r) == IF r.reverse THEN r.buf \o r.out ELSE r.out \o r.buf

(***************************************************************************)
(* The reads against the claims                                            *)
(***************************************************************************)
NoDuplicates(seq) == \A i, j \in 1..Len(seq) : i # j => seq[i] # seq[j]

\* A row a read of kind op for [from, to) is about.
Matches(r, op, from, to) ==
    /\ r.channel_id = ReadChannel
    /\ op = "user" => r.user_id = ReadUser
    /\ r.timestamp >= from
    /\ r.timestamp < to

\* A row a read of kind op is about, whatever its range.
InScope(r, op) ==
    IF op \in RangeOps THEN Matches(r, op, rd.from, rd.to)
    ELSE r \in point_scope({r}, op)

IsMultiRead == rd.op = "channel" /\ is_multi_query(rd.from, rd.to)

\* C2: in the result of a finished range read, the buffer slice together with
\* the store's rows, no row comes twice.
C2_NoDuplicateRow ==
    (rd.op \in RangeOps /\ rd.pc = "done" /\ rd.result = "Stream") =>
        NoDuplicates(Combined(rd))

\* C3: the result of a finished range read holds every row of its channel (and
\* user) and range that had been accepted when the read was called.
C3_NoGap ==
    (rd.op \in RangeOps /\ rd.pc = "done" /\ rd.result = "Stream") =>
        \A r \in rd.before :
            Matches(r, rd.op, rd.from, rd.to) => InSeq(Combined(rd), r)

\* A finished read whose result takes one row from the buffer slice and another,
\* accepted before the call, from the store only.
C3_Witness ==
    /\ rd.op \in RangeOps /\ rd.pc = "done" /\ rd.result = "Stream"
    /\ \E r1, r2 \in rd.before :
          /\ Matches(r1, rd.op, rd.from, rd.to)
          /\ Matches(r2, rd.op, rd.from, rd.to)
          /\ InSeq(rd.buf, r1) /\ ~InSeq(rd.out, r1)
          /\ InSeq(rd.out, r2) /\ ~InSeq(rd.buf, r2)

\* C6: the rows a multi-window read has pulled from its cursors so far never
\* rise in timestamp when the order is descending and never fall when it is
\* ascending.
C6_ConcatenationOrdered ==
    (IsMultiRead /\ rd.result = "Stream") =>
        \A i \in 1..(Len(rd.out) - 1) :
            IF rd.reverse
            THEN rd.out[i].timestamp >= rd.out[i + 1].timestamp
            ELSE rd.out[i].timestamp <= rd.out[i + 1].timestamp

\* A finished descending multi-window read with rows of two windows.
C6_Witness ==
    /\ IsMultiRead /\ rd.reverse /\ rd.pc = "done" /\ rd.result = "Stream"
    /\ Len(rd.out) >= 2
    /\ rd.out[1].timestamp >= rd.from + Days(CHANNEL_MULTI_QUERY_SIZE_DAYS)
    /\ rd.out[Len(rd.out)].timestamp < rd.from + Days(CHANNEL_MULTI_QUERY_SIZE_DAYS)

\* C7: in a multi-window read no data query is issued before the probe or after
\* a probe that counted no row, and a read whose probe counted no row has
\* ended with NotFound (or with the probe's own error) having issued the probe
\* alone.
C7_ProbeFirst ==
    IsMultiRead =>
        /\ \A i \in 1..Len(rd.queries) :
              rd.queries[i].kind = "data" =>
                  i > 1 /\ rd.queries[1].kind = "probe" /\ rd.count # 0
        /\ (rd.queries # <<>> /\ rd.count = 0) =>
              /\ rd.pc = "done"
              /\ rd.result \in {"NotFound", "StoreError"}
              /\ Len(rd.queries) = 1
              /\ rd.cursors = <<>>

\* A multi-window read that ended NotFound on its probe while the staging
\* buffer held a row of the range.
C7_Witness ==
    /\ IsMultiRead /\ rd.pc = "done" /\ rd.result = "NotFound"
    /\ rd.queries = <<[kind |-> "probe", from |-> rd.from, to |-> rd.to]>>

\* C8: a point read that counted no row has ended without a row query; a
\* finished point read has NotFound, the store's error, or one row of its scope
\* that is in the store.
C8_PointRead ==
    rd.op \in PointOps =>
        /\ (rd.queries # <<>> /\ rd.count = 0) =>
              /\ rd.pc = "done"
              /\ rd.result \in {"NotFound", "StoreError"}
              /\ Len(rd.queries) = 1
        /\ rd.pc = "done" =>
              \/ rd.result \in {"NotFound", "StoreError"} /\ rd.out = <<>>
              \/ /\ rd.result = "Row"
                 /\ Len(rd.out) = 1
                 /\ rd.out[1] \in point_scope(store, rd.op)

\* A point read that counted a row and found none: the rows were deleted
\* between its two queries.
C8_Witness ==
    /\ rd.op \in PointOps /\ rd.pc = "done" /\ rd.result = "NotFound"
    /\ rd.count > 0
    /\ Len(rd.queries) = 2

\* A row of the staging buffer that no flush has stored.
Unflushed == buffer \ store

C10_SearchStoreOnly ==
    rd.op = "search" =>
        /\ rd.buf = <<>>
        /\ \A r \in Unflushed : ~InSeq(Combined(rd), r)

\* A finished search with a result, while the staging buffer holds an
\* unflushed row of the searched channel and user.
C10_Witness ==
    /\ rd.op = "search" /\ rd.pc = "done" /\ rd.result = "Stream"
    /\ rd.out # <<>>
    /\ \E r \in Unflushed : r.channel_id = ReadChannel /\ r.user_id = ReadUser

\* The data queries a range read has issued to the store.
DataQueriesOf(r) == SelectSeq(r.queries, LAMBDA q : q.kind = "data")

WithinWindow(q) == q.to - q.from <= Days(CHANNEL_MULTI_QUERY_SIZE_DAYS)

\* C11 as claimed: every data query of a range read, of a channel or of a
\* user, spans at most 14 days.
C11_AllQueriesBounded ==
    rd.op \in RangeOps =>
        \A i \in 1..Len(DataQueriesOf(rd)) : WithinWindow(DataQueriesOf(rd)[i])

\* C11 as amended: every data query of a channel read spans at most 14 days,
\* and a user read that has reached the store has sent one data query over its
\* whole range, whatever the length of the range.
C11_ChannelQueriesBounded ==
    /\ rd.op = "channel" =>
          \A i \in 1..Len(DataQueriesOf(rd)) : WithinWindow(DataQueriesOf(rd)[i])
    /\ (rd.op = "user" /\ rd.result = "Stream") =>
          DataQueriesOf(rd) = <<[kind |-> "data", from |-> rd.from, to |-> rd.to]>>

\* A finished user read over more than 14 days: one data query, wider than a
\* window.
C11_Witness ==
    /\ rd.op = "user" /\ rd.pc = "done" /\ rd.result = "Stream"
    /\ is_multi_query(rd.from, rd.to)
    /\ Len(DataQueriesOf(rd)) = 1
    /\ ~WithinWindow(DataQueriesOf(rd)[1])

(***************************************************************************)
(* The extra tags of a decoded row                                         *)
(***************************************************************************)
FlagTagNames == { FlagTags[i] : i \in 1..Len(FlagTags) }

\* The tags decode has an arm for.
RecognizedTags ==
    {"id", "login", "display-name", "color", "user-type", "badges",
     "badge-info", "emotes", "client-nonce", "flags",
     "room-id", "user-id", "tmi-sent-ts", "sent-ts"}
    \cup FlagTagNames

Bitsets == 0..(Pow2(Len(FlagTags)) - 1)

\* The values a flag tag carries when it is not "1".
OtherFlagValues == { <<"0">>, <<>>, <<"true">> }

\* A PRIVMSG carrying the tags tl.
FlagsLine(tl) ==
    [channel_id |-> <<"22484632">>, user_id |-> <<"68136884">>, timestamp |-> 1709,
     raw |-> [parses |-> TRUE, cmd |-> "PRIVMSG", nick |-> <<"supibot">>,
              channel |-> <<"#", "forsen">>, has_params |-> TRUE,
              params |-> <<":", "+join">>, tags |-> tl]]

InitFlags ==
    /\ bits \in Bitsets
    /\ fnoise \in { <<>> } \cup
                  { << <<t, v>> >> : t \in { n \in FlagTagNames : ~contains(bits, from_tag(n)) },
                                    v \in OtherFlagValues }
    /\ ftags = <<>>
    /\ fbits = 0
    /\ fpc = "bits"
    /\ CodecIdle
    /\ WindowsIdle
    /\ EngineIdle
    /\ LoopIdle
    /\ TextIdle
    /\ HandlersIdle

\* The serving path lists the flags of a row as tags.
EncodeFlags ==
    /\ fpc = "bits"
    /\ ftags' = as_tags(bits)
    /\ fpc' = "tags"
    /\ UNCHANGED <<bits, fnoise, fbits>>
    /\ UNCHANGED <<codecVars, windowVars, engineVars, loopVars,
                   textVars, handlerVars>>

\* A line with these tags, and the flag tags valued other than "1", is decoded.
DecodeFlags ==
    /\ fpc = "tags"
    /\ fbits' = from_unstructured(FlagsLine(fnoise \o ftags)).message_flags
    /\ fpc' = "decoded"
    /\ UNCHANGED <<bits, fnoise, ftags>>
    /\ UNCHANGED <<codecVars, windowVars, engineVars, loopVars,
                   textVars, handlerVars>>

NextFlags == EncodeFlags \/ DecodeFlags

SpecFlags == InitFlags /\ [][NextFlags]_vars

\* Bit i (from 1) of a bitset, by arithmetic.
BitSet(b, i) == (b \div Pow2(i - 1)) % 2 = 1

Entries(tl, name) == { k \in 1..Len(tl) : tl[k][1] = name }

\* C18: the encoded list has one entry (tag, "1") for each set bit and none for
\* an unset bit or any other tag; the decoded bit of a flag tag is set exactly
\* when the line carries the tag valued "1"; and the decoded bitset is the
\* encoded one.
C18_FlagsRoundTrip ==
    /\ fpc \in {"tags", "decoded"} =>
          /\ \A i \in 1..Len(FlagTags) :
                Cardinality(Entries(ftags, FlagTags[i])) = IF BitSet(bits, i) THEN 1 ELSE 0
          /\ \A k \in 1..Len(ftags) :
                ftags[k][1] \in FlagTagNames /\ ftags[k][2] = <<"1">>
    /\ fpc = "decoded" =>
          /\ \A i \in 1..Len(FlagTags) :
                BitSet(fbits, i) <=> InSeq(fnoise \o ftags, <<FlagTags[i], <<"1">> >>)
          /\ fbits = bits
          /\ fbits \in Bitsets

\* Nine set bits have gone round beside the tenth flag tag valued "0".
C18_Witness ==
    /\ fpc = "decoded"
    /\ Len(ftags) = Len(FlagTags) - 1
    /\ fnoise # <<>>
    /\ fnoise[1][2] = <<"0">>
    /\ fbits = bits

(***************************************************************************)
(* streams.rs: the external listing                                        *)
(***************************************************************************)
\* GetStreamsRequest::default().first(100)
PageSize == 100

\* An item of the listing: its id, its viewer count, and whether
\* Stream::try_from converts it.
Item(id, viewer_count, converts) ==
    [id |-> id, viewer_count |-> viewer_count, converts |-> converts]

\* n items with one viewer each, ids from base + 1.
LowRun(n, base) == [i \in 1..n |-> Item(base + i, 1, TRUE)]

\* Two short pages; the third source does not convert.
Quiet ==
    << <<Item(1, 5, TRUE), Item(2, 0, TRUE)>>,
       <<Item(3, 7, FALSE), Item(4, 2, TRUE)>> >>

\* Quiet after a fifth source has gone live.
QuietPlus ==
    << <<Item(1, 5, TRUE), Item(2, 0, TRUE), Item(5, 1, TRUE)>>,
       <<Item(3, 7, FALSE), Item(4, 2, TRUE)>> >>

\* A first page with 51 sources below two viewers, and a page after it.
LongTail == << LowRun(51, 100) \o <<Item(1, 2, TRUE)>>, <<Item(2, 9, TRUE)>> >>

\* A first page with 50 sources below two viewers, and a page after it.
ShortTail == << LowRun(50, 100) \o <<Item(1, 2, TRUE)>>, <<Item(2, 9, TRUE)>> >>

\* No source is live.
Silent == << <<>> >>

Listings == {Quiet, LongTail, ShortTail, Silent}

\* Three pages; the first two hold 30 sources below two viewers each, so that
\* neither passes 50 and the two together do.
Creeping ==
    << LowRun(30, 100) \o <<Item(1, 2, TRUE)>>, LowRun(30, 200), <<Item(3, 9, TRUE)>> >>

\* The listing moved between two requests of a pass: the second source is at
\* the end of the first page and again at the head of the second.
Shifted ==
    << <<Item(1, 5, TRUE), Item(2, 3, TRUE)>>,
       <<Item(2, 3, TRUE), Item(3, 4, TRUE)>> >>

\* Shifted after a fourth source has gone live.
ShiftedPlus ==
    << <<Item(1, 5, TRUE), Item(2, 3, TRUE)>>,
       <<Item(2, 3, TRUE), Item(3, 4, TRUE), Item(4, 2, TRUE)>> >>

\* Listings that run over more pages, or that repeat a source.
MoreListings == {Creeping, Shifted}

\* The listing after a source has gone live.
Grown == { <<Quiet, QuietPlus>>, <<Silent, Quiet>>, <<Shifted, ShiftedPlus>> }

NoResponse == [ok |-> FALSE]

\* req_get answered: the page after the cursor and the cursor of the next, if
\* there is one.
req_get(pages, after) ==
    [ok |-> TRUE,
     data |-> pages[after + 1],
     pagination |-> IF after + 1 < Len(pages) THEN after + 1 ELSE NoCursor]

(***************************************************************************)
(* streams.rs: query_streams, one page                                     *)
(***************************************************************************)
I8Max == 127

\* small_count after n times += 1 on an i8 that started at 0: past 127 the
\* release build wraps to -128.
add_i8(n) == ((n + I8Max + 1) % (2 * I8Max + 2)) - I8Max - 1

LowSignalViewers == 2

\* A source with two viewers counted as well.
counts_as_small_inclusive(viewer_count) == viewer_count <= LowSignalViewers

\* if s.viewer_count < 2
counts_as_small(viewer_count) == viewer_count < LowSignalViewers

\* Every source taken for new.
always_new(last, id) == TRUE

\* if last_loop.contains(&s.id) { return None; }
not_in_last(last, id) == id \notin last

\* The filter_map over resp.data: every id goes into current_loop, the
\* sources below two viewers are counted, and the sources not in last_loop
\* that convert make new_streams, in the order of the page.
filter_map(current, data, last) ==
    [current_loop |-> current \cup { data[i].id : i \in 1..Len(data) },
     small_count |->
         add_i8(Cardinality({ i \in 1..Len(data) :
                                counts_as_small(data[i].viewer_count) })),
     new_streams |->
         LET kept == SelectSeq(data, LAMBDA s : not_in_last(last, s.id) /\ s.converts)
         IN  [i \in 1..Len(kept) |-> kept[i].id]]

LowSignalCutoff == 50

\* The cutoff taken at 50 already.
low_signal_cutoff_inclusive(small_count) == small_count >= LowSignalCutoff

\* small_count > 50
low_signal_cutoff(small_count) == small_count > LowSignalCutoff

\* The page loop deaf to the signal.
break_reason_deaf(next_cursor, small_count, has_changed) ==
    CASE next_cursor = NoCursor -> "no_cursor"
      [] small_count > LowSignalCutoff -> "cutoff"
      [] OTHER -> "none"

\* The reason the page loop stops after a page, "none" when it goes on:
\* cursor.is_none() || small_count > 50 || shutdown_rx.has_changed()
break_reason(next_cursor, small_count, has_changed) ==
    CASE next_cursor = NoCursor -> "no_cursor"
      [] low_signal_cutoff(small_count) -> "cutoff"
      [] has_changed -> "cancelled"
      [] OTHER -> "none"

(***************************************************************************)
(* streams.rs: run and query_streams, one action for each stretch between  *)
(* two awaits                                                              *)
(***************************************************************************)
InitLoop ==
    /\ clock = 0
    /\ request_interval \in 0..MaxInterval
    /\ timeout = 0
    /\ lpc = "select"
    /\ last_loop = {}
    /\ current_loop = {}
    /\ cursor = NoCursor
    /\ page = NoPage
    /\ shutdown = FALSE
    /\ writer = [open |-> TRUE, got |-> <<>>]
    /\ listing \in Listings
    /\ \A k \in 1..Len(listing) : Len(listing[k]) <= PageSize
    /\ hist = NoHist
    /\ CodecIdle
    /\ WindowsIdle
    /\ EngineIdle
    /\ FlagsIdle
    /\ TextIdle
    /\ HandlersIdle

\* The task started against a listing of MoreListings.
InitLoopMore ==
    /\ clock = 0
    /\ request_interval \in 0..MaxInterval
    /\ timeout = 0
    /\ lpc = "select"
    /\ last_loop = {}
    /\ current_loop = {}
    /\ cursor = NoCursor
    /\ page = NoPage
    /\ shutdown = FALSE
    /\ writer = [open |-> TRUE, got |-> <<>>]
    /\ listing \in MoreListings
    /\ \A k \in 1..Len(listing) : Len(listing[k]) <= PageSize
    /\ hist = NoHist
    /\ CodecIdle
    /\ WindowsIdle
    /\ EngineIdle
    /\ FlagsIdle
    /\ TextIdle
    /\ HandlersIdle

BackoffFactor == 3

\* The retry spaced like any other pass.
retry_interval_plain(interval) == interval

\* Duration::from_secs(request_interval * 3)
retry_interval(interval) == interval * BackoffFactor

\* query_streams returns and run resets the timer.  Ok: the sets were swapped
\* and current_loop cleared before the return; Err: the ? of the send returned
\* before the swap.
FinishPass(cur, result, how, h) ==
    /\ lpc' = "select"
    /\ last_loop' = IF result = "Ok" THEN cur ELSE last_loop
    /\ current_loop' = IF result = "Ok" THEN {} ELSE cur
    /\ timeout' = clock + (IF result = "Err" THEN retry_interval(request_interval)
                           ELSE request_interval)
    /\ cursor' = NoCursor
    /\ page' = NoPage
    /\ hist' = [h EXCEPT !.started = 0, !.ended = clock, !.outcome = result,
                         !.how = how]

\* The end of the page loop's body: break, or the next request.
AfterPage(cur, next_cursor, small_count, h) ==
    IF break_reason(next_cursor, small_count, shutdown) # "none"
    THEN FinishPass(cur, "Ok", break_reason(next_cursor, small_count, shutdown), h)
    ELSE /\ lpc' = "request"
         /\ cursor' = next_cursor
         /\ current_loop' = cur
         /\ page' = NoPage
         /\ hist' = [h EXCEPT !.requested = Append(@, next_cursor)]
         /\ UNCHANGED <<last_loop, timeout>>

\* select!: the sleep has elapsed; query_streams sends its first request.
TimerFires ==
    /\ lpc = "select"
    /\ clock >= timeout
    /\ hist.passes < MaxPasses
    /\ lpc' = "request"
    /\ cursor' = NoCursor
    /\ hist' = [NoHist EXCEPT !.passes = hist.passes + 1,
                              !.started = clock,
                              !.how = "running",
                              !.requested = <<NoCursor>>,
                              !.against = last_loop]
    /\ UNCHANGED <<clock, request_interval, timeout, last_loop, current_loop, page,
                   shutdown, writer, listing>>
    /\ UNCHANGED <<codecVars, windowVars, engineVars, flagVars,
                   textVars, handlerVars>>

\* The shutdown signal is seen changed.
never_changed(raised) == FALSE

\* shutdown_rx.changed() resolves
changed(raised) == raised

\* select!: the shutdown branch; the task breaks out of its loop.
ShutdownObserved ==
    /\ lpc = "select"
    /\ changed(shutdown)
    /\ lpc' = "exited"
    /\ UNCHANGED <<clock, request_interval, timeout, last_loop, current_loop, cursor,
                   page, shutdown, writer, listing, hist>>
    /\ UNCHANGED <<codecVars, windowVars, engineVars, flagVars,
                   textVars, handlerVars>>

\* req_get returns: an error breaks the page loop; a page is run through the
\* filter_map and its batch, if any, is handed to the write queue.
ListingResponds ==
    /\ lpc = "request"
    /\ \E resp \in {NoResponse, req_get(listing, cursor)} :
          IF ~resp.ok
          THEN FinishPass(current_loop, "Ok", "listing_error",
                          [hist EXCEPT !.listing_failed = TRUE])
          ELSE LET acc == filter_map(current_loop, resp.data, last_loop)
                   h == [hist EXCEPT !.seen = Append(@, resp.data)]
               IN  IF acc.new_streams # <<>>
                   THEN /\ lpc' = "send"
                        /\ cursor' = resp.pagination
                        /\ current_loop' = acc.current_loop
                        /\ page' = [data |-> resp.data,
                                    small_count |-> acc.small_count,
                                    new_streams |-> acc.new_streams]
                        /\ hist' = [h EXCEPT !.offered = Append(@, acc.new_streams)]
                        /\ UNCHANGED <<last_loop, timeout>>
                   ELSE AfterPage(acc.current_loop, resp.pagination,
                                  acc.small_count, h)
    /\ UNCHANGED <<clock, request_interval, shutdown, writer, listing>>
    /\ UNCHANGED <<codecVars, windowVars, engineVars, flagVars,
                   textVars, handlerVars>>

\* writer_tx.send(new_streams).await? returns: Err when the queue is closed.
SendReturns ==
    /\ lpc = "send"
    /\ IF writer.open
       THEN /\ writer' = [writer EXCEPT !.got = Append(@, page.new_streams)]
            /\ AfterPage(current_loop, cursor, page.small_count, hist)
       ELSE /\ UNCHANGED writer
            /\ FinishPass(current_loop, "Err", "send_error", hist)
    /\ UNCHANGED <<clock, request_interval, shutdown, listing>>
    /\ UNCHANGED <<codecVars, windowVars, engineVars, flagVars,
                   textVars, handlerVars>>

\* A second passes, while the task waits for its timer or for the listing.
Tick ==
    /\ lpc \in {"select", "request"}
    /\ clock < MaxClock
    /\ clock' = clock + 1
    /\ UNCHANGED <<request_interval, timeout, lpc, last_loop, current_loop, cursor,
                   page, shutdown, writer, listing, hist>>
    /\ UNCHANGED <<codecVars, windowVars, engineVars, flagVars,
                   textVars, handlerVars>>

\* The process raises the shutdown signal.
Cancel ==
    /\ lpc \in {"select", "request", "send"}
    /\ ~shutdown
    /\ shutdown' = TRUE
    /\ UNCHANGED <<clock, request_interval, timeout, lpc, last_loop, current_loop,
                   cursor, page, writer, listing, hist>>
    /\ UNCHANGED <<codecVars, windowVars, engineVars, flagVars,
                   textVars, handlerVars>>

\* The receiving end of the write queue is dropped; followed where the task
\* can tell, while a send is pending.
CloseWriter ==
    /\ lpc = "send"
    /\ writer.open
    /\ writer' = [writer EXCEPT !.open = FALSE]
    /\ UNCHANGED <<clock, request_interval, timeout, lpc, last_loop, current_loop,
                   cursor, page, shutdown, listing, hist>>
    /\ UNCHANGED <<codecVars, windowVars, engineVars, flagVars,
                   textVars, handlerVars>>

\* Between two passes a source goes live; none goes off.
GoLive ==
    /\ lpc = "select"
    /\ \E g \in Grown : listing = g[1] /\ listing' = g[2]
    /\ UNCHANGED <<clock, request_interval, timeout, lpc, last_loop, current_loop,
                   cursor, page, shutdown, writer, hist>>
    /\ UNCHANGED <<codecVars, windowVars, engineVars, flagVars,
                   textVars, handlerVars>>

NextLoop ==
    \/ TimerFires
    \/ ShutdownObserved
    \/ ListingResponds
    \/ SendReturns
    \/ Tick
    \/ Cancel
    \/ CloseWriter
    \/ GoLive

SpecLoop == InitLoop /\ [][NextLoop]_vars

SpecLoopMore == InitLoopMore /\ [][NextLoop]_vars

\* Every listing call and every send returns, and a select that keeps finding
\* the shutdown branch ready takes it in the end.
SpecLoopFair ==
    /\ SpecLoop
    /\ WF_vars(ListingResponds)
    /\ WF_vars(SendReturns)
    /\ SF_vars(ShutdownObserved)

(***************************************************************************)
(* The loop against the claims                                             *)
(***************************************************************************)
InPass == lpc \in {"request", "send"}

BetweenPasses == lpc = "select" /\ hist.passes >= 1

\* C12: the timer of the first pass is due at the start of the task; a pass
\* runs only while the task is in it, and it started no earlier than its
\* timer was due; and after a pass the timer is due request_interval seconds
\* after the pass ended when query_streams returned Ok, three times that when
\* it returned Err.
C12_Schedule ==
    /\ hist.passes = 0 => timeout = 0 /\ clock >= timeout
    /\ InPass <=> hist.how = "running"
    /\ InPass => hist.started >= timeout
    /\ BetweenPasses =>
          /\ hist.outcome \in {"Ok", "Err"}
          /\ hist.ended <= clock
          /\ timeout = hist.ended + (IF hist.outcome = "Err"
                                     THEN 3 * request_interval
                                     ELSE request_interval)

\* A pass that began after the clock had moved has failed, and the retry is
\* due three intervals after its end.
C12_Witness ==
    /\ BetweenPasses
    /\ hist.outcome = "Err"
    /\ request_interval >= 1
    /\ hist.ended >= 1
    /\ timeout = hist.ended + 3 * request_interval

\* C13: after a pass in which the listing call failed, the task is back at its
\* select and the timer is due three times request_interval after the end of
\* the pass.
C13_ListingFailureBacksOff ==
    hist.listing_failed =>
        /\ lpc \in {"select", "exited"}
        /\ lpc = "select" => timeout = hist.ended + 3 * request_interval

\* The ids of a batch, of a page's items, of the pages of a pass.
BatchIds(b) == { b[i] : i \in 1..Len(b) }

PageIds(data) == { data[i].id : i \in 1..Len(data) }

PassIds(pages) == UNION { PageIds(pages[k]) : k \in 1..Len(pages) }

RECURSIVE TotalLen(_)
TotalLen(batches) ==
    IF batches = <<>> THEN 0 ELSE Len(Head(batches)) + TotalLen(Tail(batches))

\* C14: the listing never drops a source, and no source has reached the write
\* queue more than once.
C14_ForwardedOnce ==
    Cardinality(UNION { BatchIds(writer.got[b]) : b \in 1..Len(writer.got) })
        = TotalLen(writer.got)

\* The sources of a page below two viewers.
LowCount(data) == Cardinality({ i \in 1..Len(data) : data[i].viewer_count < 2 })

\* C15: a page with more than 50 sources below two viewers is the last page
\* requested in its pass, and a pass has stopped on the cutoff only after such
\* a page.
C15_CutoffEndsPagination ==
    /\ \A k \in 1..Len(hist.seen) :
          LowCount(hist.seen[k]) > 50 =>
              k = Len(hist.seen) /\ Len(hist.requested) = k
    /\ hist.how = "cutoff" => LowCount(hist.seen[Len(hist.seen)]) > 50

\* A pass has stopped on the cutoff after the first of two pages, the signal
\* not raised.
C15_Witness ==
    /\ BetweenPasses
    /\ hist.how = "cutoff"
    /\ ~shutdown
    /\ Len(hist.seen) = 1
    /\ Len(listing) = 2
    /\ LowCount(hist.seen[1]) = 51

\* C16: once the shutdown signal is raised the task exits its loop, and a task
\* that has exited starts no pass.
C16_CancelExits ==
    /\ shutdown ~> lpc = "exited"
    /\ [][lpc = "exited" => (lpc' = "exited" /\ hist' = hist)]_vars

\* The task has exited after a pass that the signal cut short.
C16_Witness ==
    /\ lpc = "exited"
    /\ shutdown
    /\ hist.how = "cancelled"

\* The batch of a page: the ids of its items that are not in last and that
\* convert, in the order of the page.
ExpectedBatch(data, last) ==
    LET keep == { i \in 1..Len(data) : data[i].id \notin last /\ data[i].converts }
        nth(n) == CHOOSE i \in keep : Cardinality({ j \in keep : j < i }) = n - 1
    IN  [n \in 1..Cardinality(keep) |-> data[nth(n)].id]

\* C19: in a pass every id of every page so far is in current, and the batches
\* handed to the write queue are, page after page, the batches of the pages
\* that are not empty.
C19_PageBatch ==
    /\ InPass => PassIds(hist.seen) \subseteq current_loop
    /\ hist.offered =
          SelectSeq([k \in 1..Len(hist.seen) |-> ExpectedBatch(hist.seen[k], hist.against)],
                    LAMBDA b : b # <<>>)
    /\ lpc = "send" <=> (InPass /\ page.new_streams # <<>>)

\* A page with a source of the pass before and a new one: the batch in hand is
\* a part of the page.
C19_Witness ==
    /\ lpc = "send"
    /\ hist.passes >= 2
    /\ \E i \in 1..Len(page.data) : page.data[i].id \in last_loop
    /\ page.new_streams # <<>>
    /\ Len(page.new_streams) < Len(page.data)

\* C20: between two passes current is empty and last holds the ids of the pages
\* of the pass that has ended.
C20_SwapAtPassEnd ==
    BetweenPasses =>
        /\ current_loop = {}
        /\ last_loop = PassIds(hist.seen)

\* The sources below two viewers on the first k pages of a pass.
RECURSIVE LowSoFar(_, _)
LowSoFar(pages, k) ==
    IF k = 0 THEN 0 ELSE LowCount(pages[k]) + LowSoFar(pages, k - 1)

\* C21 as stated: once the pages of a pass hold, together, more than 50
\* sources below two viewers, no further page is requested in that pass.
C21_AccumulatedCutoff ==
    \A k \in 1..Len(hist.seen) :
        LowSoFar(hist.seen, k) > 50 => Len(hist.requested) <= k

\* C21: the counter starts at zero on every page and counts the sources of
\* that page below two viewers; a further page is requested only after a page
\* whose own count is at most 50, however many the pages before it held.
C21_PerPageCutoff ==
    /\ lpc = "send" => page.small_count = LowCount(page.data)
    /\ \A k \in 1..Len(hist.seen) :
          Len(hist.requested) > k => LowCount(hist.seen[k]) <= 50

\* A third page is requested after two pages that hold 60 such sources
\* between them.
C21_Witness ==
    /\ lpc = "request"
    /\ Len(hist.requested) = 3
    /\ Len(hist.seen) = 2
    /\ LowSoFar(hist.seen, 2) > 50

\* The batches the write queue has taken in the pass at hand, or in the last
\* pass when the task is between two: the batches offered, less the one whose
\* send is pending or has failed.
ForwardedInPass ==
    LET n == Len(hist.offered)
                 - (IF lpc = "send" \/ hist.how = "send_error" THEN 1 ELSE 0)
    IN  SubSeq(writer.got, Len(writer.got) - n + 1, Len(writer.got))

\* C29: no source id is in the batches forwarded in one pass more than once.
C29_OncePerPass ==
    Cardinality(UNION { BatchIds(ForwardedInPass[b]) : b \in 1..Len(ForwardedInPass) })
        = TotalLen(ForwardedInPass)

\* C22: a pass that the signal has stopped has stopped after a page, with
\* every page it asked for received and the batch of every page, the last
\* included, taken by the write queue; with the signal raised a pass asks for
\* no further page; and raising the signal moves nothing of the pass, which
\* the task leaves only from its select.
C22_CancelAtPageEnd ==
    /\ [](hist.how = "cancelled" =>
             /\ shutdown
             /\ Len(hist.seen) = Len(hist.requested)
             /\ ForwardedInPass = hist.offered
             /\ hist.offered =
                   SelectSeq([k \in 1..Len(hist.seen) |->
                                 ExpectedBatch(hist.seen[k], hist.against)],
                             LAMBDA b : b # <<>>))
    /\ [][(shutdown /\ InPass) => hist'.requested = hist.requested]_vars
    /\ [][shutdown' # shutdown =>
             /\ lpc' = lpc
             /\ cursor' = cursor
             /\ page' = page
             /\ current_loop' = current_loop
             /\ writer' = writer
             /\ hist' = hist]_vars
    /\ [][lpc' = "exited" => lpc \in {"select", "exited"}]_vars

\* The signal was raised while the first of two pages was on its way; its
\* batch is the last the write queue took, and the second page was never
\* asked for.
C22_Witness ==
    /\ BetweenPasses
    /\ hist.how = "cancelled"
    /\ Len(listing) = 2
    /\ Len(hist.seen) = 1
    /\ hist.offered # <<>>
    /\ writer.got # <<>>
    /\ writer.got[Len(writer.got)] = hist.offered[1]

\* The value of the line's colour tag, '#' stripped; NoTag without the tag.
ColorText ==
    IF tag_of(line.raw.tags, "color") = NoTag THEN NoTag
    ELSE trim_start_matches(tag_of(line.raw.tags, "color"), "#")

\* A colour below 2^24: at most six hex digits once the leading zeros are
\* gone.
Is24Bit(color) == color # NoColor /\ Len(color) <= 6

\* C23: the colour of a decoded row, when there is one, is below 2^24; and a
\* line whose colour tag is no hex number below 2^24 decodes to a row without
\* a colour.
C23_Color24Bit ==
    (cpc \in {"decoded", "encoded"} /\ row.ok) =>
        /\ row.color # NoColor => Is24Bit(row.color)
        /\ (ColorText # NoTag /\ ~Is24Bit(from_str_radix(ColorText))) =>
               row.color = NoColor

\* Whether a tag list has a tag of that name.
HasName(tl, name) == \E i \in 1..Len(tl) : tl[i][1] = name

\* The tags all_tags makes from the fields of the row: the encoded list less
\* the extra tags at its end.
FieldTags == SubSeq(tags, 1, Len(tags) - Len(row.extra_tags))

\* The tags at the end of the encoded list, as many as the row has extra tags.
TailTags == SubSeq(tags, Len(tags) - Len(row.extra_tags) + 1, Len(tags))

\* The fields that are written when they are not empty, with their tags.
OptionalFields ==
    { <<"room-id", row.channel_id>>, <<"user-id", row.user_id>>,
      <<"login", row.user_login>>, <<"client-nonce", row.client_nonce>>,
      <<"display-name", row.display_name>> }

\* The start, the badges and the end of the list, as C24 has them.
EncodeFrame ==
    /\ tags # <<>>
    /\ tags[1] = <<"tmi-sent-ts", to_string(row.timestamp)>>
    /\ \E i \in 1..Len(FieldTags) :
          /\ FieldTags[i][1] = "badges"
          /\ FieldTags[i][2] =
                (CASE Len(row.badges) = 0 -> <<>>
                   [] Len(row.badges) = 1 -> row.badges[1]
                   [] OTHER -> row.badges[1] \o <<",">> \o row.badges[2])
    /\ InSeq(FieldTags, <<"badge-info", row.badge_info>>)
    /\ TailTags = row.extra_tags

\* C24 as stated: the encoded list starts with the sent-timestamp tag of the
\* row's timestamp; it has an id, room-id, user-id, login, client-nonce or
\* display-name tag exactly when that field is not empty (not nil for id); it
\* has the badges, joined by commas, and badge-info; and it ends with the
\* extra tags in their order.
C24_EncodeShape ==
    cpc = "encoded" =>
        /\ EncodeFrame
        /\ HasName(tags, "id") <=> row.id # NilUuid
        /\ \A o \in OptionalFields : HasName(tags, o[1]) <=> o[2] # <<>>

\* C24 as amended: as above, with the tags of the six fields looked for
\* among the tags made from the fields, each carrying its field; an id among
\* the extra tags is written with them, whether the row's id is nil or not.
C24_EncodeFieldShape ==
    cpc = "encoded" =>
        /\ EncodeFrame
        /\ HasName(FieldTags, "id") <=> row.id # NilUuid
        /\ row.id # NilUuid => InSeq(FieldTags, <<"id", hyphenated(row.id)>>)
        /\ \A o \in OptionalFields :
              /\ HasName(FieldTags, o[1]) <=> o[2] # <<>>
              /\ o[2] # <<>> => InSeq(FieldTags, o)

\* A row without id and without room id, with a display name and two badges,
\* is encoded; the id that was no UUID comes back with the extra tags.
C24_Witness ==
    /\ cpc = "encoded"
    /\ row.id = NilUuid
    /\ row.channel_id = <<>>
    /\ row.display_name # <<>>
    /\ row.timestamp > 0
    /\ Len(row.badges) = 2
    /\ row.extra_tags # <<>>
    /\ row.extra_tags[1] = <<"id", UuidGarbage>>
    /\ HasName(tags, "id")

\* C26: a channel range read, of whatever length, has not ended with NotFound
\* while a row of its channel and range, accepted before the call, is held in
\* the staging buffer.
C26_BufferedNeverNotFound ==
    (rd.op = "channel" /\ rd.pc = "done" /\ rd.result = "NotFound") =>
        \A r \in rd.before \cap buffer : ~Matches(r, "channel", rd.from, rd.to)

(***************************************************************************)
(* db/mod.rs: the text of read_channel's queries                           *)
(***************************************************************************)
\* The limits and offsets a request carries; NoValue is None.
QueryLimits == {NoValue, 0, 2}

QueryOffsets == {NoValue, 0, 2}

\* The lengths of the ranges, in ticks: a day, 14 days less a tick, 14 days, a
\* tick more, and longer.
QueryLengths ==
    { Days(1), Days(CHANNEL_MULTI_QUERY_SIZE_DAYS) - 1, Days(CHANNEL_MULTI_QUERY_SIZE_DAYS),
      Days(CHANNEL_MULTI_QUERY_SIZE_DAYS) + 1, Days(15), Days(28), Days(30) }

\* What the buffer response makes of a limit or an offset: none when the
\* request has none, else what is left of it for the store.
Normalized(asked) == IF asked = NoValue THEN {NoValue} ELSE 0..asked

\* FlushBufferResponse::normalized_limit
normalized_limit(buffer_response) == buffer_response.limit

\* FlushBufferResponse::normalized_offset
normalized_offset(buffer_response) == buffer_response.offset

\* format!("SELECT ?fields ... ORDER BY timestamp {suffix}")
select_text(reverse) ==
    <<"SELECT ?fields FROM message_structured WHERE channel_id = ? AND timestamp >= ? AND timestamp < ? ORDER BY timestamp ",
      IF reverse THEN "DESC" ELSE "ASC">>

\* The text of the probe.
probe_text ==
    <<"SELECT count() FROM (SELECT timestamp FROM message_structured WHERE channel_id = ? AND timestamp >= ? AND timestamp < ? LIMIT 1)">>

\* The query left as it was.
apply_limit_offset_skipped(query, buffer_response) == query

\* apply_limit_offset: format!("{query} LIMIT {limit}"), then
\* format!("{query} OFFSET {offset}")
apply_limit_offset(query, buffer_response) ==
    LET limited == IF normalized_limit(buffer_response) # NoValue
                   THEN query \o <<" LIMIT ">>
                              \o to_string(normalized_limit(buffer_response))
                   ELSE query
    IN  IF normalized_offset(buffer_response) # NoValue
        THEN limited \o <<" OFFSET ">>
                     \o to_string(normalized_offset(buffer_response))
        ELSE limited

\* db.query(text).bind(channel_id).bind(from).bind(to)
Bound(kind, text, from, to) == [kind |-> kind, text |-> text, from |-> from, to |-> to]

\* read_channel is called: a range, an order, a limit and an offset, and the
\* buffer response made of them.
InitText ==
    /\ \E from \in { Days(d) : d \in 0..MaxFromDays }, len \in QueryLengths,
          reverse \in BOOLEAN, limit \in QueryLimits, offset \in QueryOffsets :
          \E nl \in Normalized(limit), no \in Normalized(offset) :
             qparams = [from |-> from, to |-> from + len, reverse |-> reverse,
                        limit |-> limit, offset |-> offset,
                        buffer_response |-> [limit |-> nl, offset |-> no]]
    /\ qsent = <<>>
    /\ qpc = "call"
    /\ CodecIdle
    /\ WindowsIdle
    /\ EngineIdle
    /\ FlagsIdle
    /\ LoopIdle
    /\ HandlersIdle

\* The else branch: apply_limit_offset, then the one query.
SingleQuery ==
    /\ qpc = "call"
    /\ ~is_multi_query(qparams.from, qparams.to)
    /\ qsent' = <<Bound("data",
                        apply_limit_offset(select_text(qparams.reverse),
                                           qparams.buffer_response),
                        qparams.from, qparams.to)>>
    /\ qpc' = "done"
    /\ UNCHANGED qparams
    /\ UNCHANGED <<codecVars, windowVars, engineVars, flagVars, loopVars, handlerVars>>

\* Past 14 days: the probe; NotFound when it counts no row.
ProbeQuery ==
    /\ qpc = "call"
    /\ is_multi_query(qparams.from, qparams.to)
    /\ qsent' = <<Bound("probe", probe_text, qparams.from, qparams.to)>>
    /\ \E count \in {0, 1} :
          qpc' = IF probe_not_found(count) THEN "not_found" ELSE "windows"
    /\ UNCHANGED qparams
    /\ UNCHANGED <<codecVars, windowVars, engineVars, flagVars, loopVars, handlerVars>>

\* The loop of next_cursor calls, each with the query as line 46 made it.
WindowQueries ==
    /\ qpc = "windows"
    /\ LET ws == multi_query_windows(qparams.from, qparams.to)
       IN  qsent' = qsent \o [i \in 1..Len(ws) |->
                                 Bound("data", select_text(qparams.reverse),
                                       ws[i][1], ws[i][2])]
    /\ qpc' = "done"
    /\ UNCHANGED qparams
    /\ UNCHANGED <<codecVars, windowVars, engineVars, flagVars, loopVars, handlerVars>>

NextText == SingleQuery \/ ProbeQuery \/ WindowQueries

SpecText == InitText /\ [][NextText]_vars

\* The data queries sent.
DataSent == SelectSeq(qsent, LAMBDA q : q.kind = "data")

\* Whether a text has the clause, and the tokens after its keyword.
HasClause(text, keyword) == \E i \in 1..Len(text) : text[i] = keyword

AfterClause(text, keyword) ==
    SubSeq(text, (CHOOSE i \in 1..Len(text) : text[i] = keyword) + 1, Len(text))

StartsWith(text, prefix) ==
    Len(text) >= Len(prefix) /\ SubSeq(text, 1, Len(prefix)) = prefix

\* C25: a finished channel read over at most 14 days has sent one query, a
\* data query over the whole range whose text has a LIMIT clause exactly when
\* the request has a limit and an OFFSET clause exactly when it has an
\* offset, each followed by the number the buffer response made of the
\* request's; a read over more than 14 days has sent, after its probe, two or
\* more data queries, none with LIMIT or OFFSET in its text.
C25_LimitOffsetInText ==
    qpc = "done" =>
        IF qparams.to - qparams.from <= 14 * TicksPerDay
        THEN /\ Len(qsent) = 1
             /\ Len(DataSent) = 1
             /\ DataSent[1].from = qparams.from /\ DataSent[1].to = qparams.to
             /\ HasClause(DataSent[1].text, " LIMIT ") <=> qparams.limit # NoValue
             /\ HasClause(DataSent[1].text, " OFFSET ") <=> qparams.offset # NoValue
             /\ qparams.limit # NoValue =>
                   /\ qparams.buffer_response.limit <= qparams.limit
                   /\ StartsWith(AfterClause(DataSent[1].text, " LIMIT "),
                                 to_string(qparams.buffer_response.limit))
             /\ qparams.offset # NoValue =>
                   /\ qparams.buffer_response.offset <= qparams.offset
                   /\ AfterClause(DataSent[1].text, " OFFSET ")
                         = to_string(qparams.buffer_response.offset)
        ELSE /\ Len(DataSent) >= 2
             /\ Len(qsent) = Len(DataSent) + 1
             /\ \A i \in 1..Len(DataSent) :
                   /\ ~HasClause(DataSent[i].text, " LIMIT ")
                   /\ ~HasClause(DataSent[i].text, " OFFSET ")

\* A read over exactly 14 days with a limit and an offset has sent its one
\* query, both written into the text.
C25_Witness ==
    /\ qpc = "done"
    /\ qparams.to - qparams.from = 14 * TicksPerDay
    /\ qparams.limit = 2 /\ qparams.offset = 2
    /\ Len(qsent) = 1
    /\ HasClause(qsent[1].text, " LIMIT ")
    /\ HasClause(qsent[1].text, " OFFSET ")

(***************************************************************************)
(* web/handlers.rs: the log handlers, one action for each kind of step     *)
(***************************************************************************)
\* The handlers that take the user from the path, by login name and by id.
UserByNameHandlers ==
    {"get_user_logs_by_name", "get_user_logs_by_date_name",
     "random_user_line_by_name", "search_user_logs_by_name"}

UserByIdHandlers ==
    {"get_user_logs_id", "get_user_logs_by_date_id",
     "random_user_line_by_id", "search_user_logs_by_id"}

ChannelHandlers ==
    {"get_channel_logs", "get_channel_logs_by_date", "random_channel_line"}

LogHandlers ==
    ChannelHandlers \cup UserByNameHandlers \cup UserByIdHandlers
    \cup {"list_available_logs"}

\* The handlers whose range parameters are optional.
RangeOptional == {"get_channel_logs", "get_user_logs_by_name", "get_user_logs_id"}

\* The user of the request: the two of check_logs_auth's test and another.
RequestUsers == {"gofishgame", "951349582", "someone"}

\* app.config.admin_api_key: None, or a key.
NoKey == "\\nokey"

AdminKeys == {NoKey, "secret"}

\* The X-Api-Key header: absent, the key, another value, and bytes that
\* to_str() rejects.
NoHeader == "\\noheader"

NotAscii == "\\notascii"

ApiKeyHeaders == {NoHeader, "secret", "guess", NotAscii}

\* headers.get("X-Api-Key").and_then(|value| value.to_str().ok()), NoKey
\* standing for None.
header_value(header) == IF header \in {NoHeader, NotAscii} THEN NoKey ELSE header

\* The header compared with the configured key as two options, so that no key
\* and no header match.
check_logs_auth_unset_key(admin_api_key, header, user) ==
    \/ user \in {"gofishgame", "951349582"}
    \/ header_value(header) = admin_api_key

\* check_logs_auth: TRUE for Ok(()), FALSE for Err(Error::InvalidAuthKey)
check_logs_auth(admin_api_key, header, user) ==
    IF user # NoUser /\ user \in {"gofishgame", "951349582"} THEN TRUE
    ELSE IF admin_api_key # NoKey /\ header_value(header) = admin_api_key THEN TRUE
    ELSE FALSE

Step(do, what) == [do |-> do, what |-> what]

\* match channel_id_type { Name => app.get_user_id_by_name(&channel).await?,
\* Id => channel }
channel_lookup(c) ==
    IF c.channel_id_type = "Name" THEN <<Step("lookup", "channel")>> ELSE <<>>

\* The steps of a handler after its check_logs_auth, in the order of its
\* code: name lookups, check_opted_out, store reads, an early Err.
after_auth(c) ==
    CASE c.handler = "get_channel_logs" ->
            channel_lookup(c)
            \o (IF c.ranged
                THEN <<Step("opt_out", "channel"), Step("store", "read_channel")>>
                ELSE <<Step("store", "read_available_channel_logs")>>)
      [] c.handler = "get_channel_logs_by_date" ->
            channel_lookup(c)
            \o <<Step("opt_out", "channel"), Step("store", "read_channel")>>
      [] c.handler \in {"get_user_logs_by_name", "get_user_logs_id"} ->
            channel_lookup(c)
            \o (IF c.handler = "get_user_logs_by_name"
                THEN <<Step("lookup", "user")>> ELSE <<>>)
            \o (IF c.ranged
                THEN <<Step("opt_out", "user"), Step("store", "read_user")>>
                ELSE <<Step("store", "read_available_user_logs")>>)
      [] c.handler \in {"get_user_logs_by_date_name", "get_user_logs_by_date_id"} ->
            (IF c.handler = "get_user_logs_by_date_name"
             THEN <<Step("lookup", "user")>> ELSE <<>>)
            \o channel_lookup(c)
            \o <<Step("opt_out", "user"), Step("store", "read_user")>>
      [] c.handler = "list_available_logs" ->
            channel_lookup(c)
            \o (IF c.user = NoUser
                THEN <<Step("fail", "NotFound")>>
                ELSE (IF c.user_id_type = "Name"
                      THEN <<Step("lookup", "user")>> ELSE <<>>)
                     \o <<Step("opt_out", "user"),
                          Step("store", "read_available_user_logs")>>)
      [] c.handler = "random_channel_line" ->
            channel_lookup(c) \o <<Step("store", "read_random_channel_line")>>
      [] c.handler \in {"random_user_line_by_name", "random_user_line_by_id"} ->
            (IF c.handler = "random_user_line_by_name"
             THEN <<Step("lookup", "user")>> ELSE <<>>)
            \o channel_lookup(c)
            \o <<Step("opt_out", "user"), Step("store", "read_random_user_line")>>
      [] OTHER ->
            (IF c.handler = "search_user_logs_by_name"
             THEN <<Step("lookup", "user")>> ELSE <<>>)
            \o channel_lookup(c)
            \o <<Step("opt_out", "user"), Step("store", "search_user_logs")>>

\* Every log handler starts with check_logs_auth(&app, headers, ..)?;
steps(c) == <<Step("auth", "check_logs_auth")>> \o after_auth(c)

\* The requests: the handler and what the path, the query and the headers
\* give it, the configured key, and what the directory and the opt-out list
\* will answer.
Calls ==
    { c \in [handler : LogHandlers,
             channel_id_type : {"Name", "Id"},
             user_id_type : {"Name", "Id"},
             user : RequestUsers \cup {NoUser},
             ranged : BOOLEAN,
             header : ApiKeyHeaders,
             admin_api_key : AdminKeys,
             known : BOOLEAN,
             opted_out : BOOLEAN] :
        /\ c.handler \in ChannelHandlers => c.user = NoUser
        /\ c.handler \in UserByNameHandlers \cup UserByIdHandlers => c.user # NoUser
        /\ c.handler \in UserByNameHandlers => c.user_id_type = "Name"
        /\ c.handler \notin UserByNameHandlers \cup {"list_available_logs"} =>
              c.user_id_type = "Id"
        /\ (c.handler = "list_available_logs" /\ c.user = NoUser) =>
              c.user_id_type = "Id"
        /\ c.handler \notin RangeOptional => c.ranged }

InitHandlers ==
    /\ hcall \in Calls
    /\ htrace = <<>>
    /\ hpc = [left |-> steps(hcall), answer |-> "none"]
    /\ CodecIdle
    /\ WindowsIdle
    /\ EngineIdle
    /\ FlagsIdle
    /\ LoopIdle
    /\ TextIdle

\* The handler goes on with its next step, or returns once none is left.
Proceed(done) ==
    /\ htrace' = Append(htrace, [do |-> Head(hpc.left).do,
                                 what |-> Head(hpc.left).what, ok |-> TRUE])
    /\ hpc' = [left |-> Tail(hpc.left),
               answer |-> IF Tail(hpc.left) = <<>> THEN done ELSE "none"]

\* The ? of a step returns its error from the handler.
Fail(error) ==
    /\ htrace' = Append(htrace, [do |-> Head(hpc.left).do,
                                 what |-> Head(hpc.left).what, ok |-> FALSE])
    /\ hpc' = [left |-> <<>>, answer |-> error]

\* The user check_logs_auth is given: the path's, the query's, or None.
auth_user(c) == c.user

\* check_logs_auth(..)?
CheckAuth ==
    /\ hpc.left # <<>> /\ Head(hpc.left).do = "auth"
    /\ IF check_logs_auth(hcall.admin_api_key, hcall.header, auth_user(hcall))
       THEN Proceed("Ok")
       ELSE Fail("InvalidAuthKey")
    /\ UNCHANGED hcall
    /\ UNCHANGED <<codecVars, windowVars, engineVars, flagVars, loopVars, textVars>>

\* app.get_user_id_by_name(..).await?
NameLookup ==
    /\ hpc.left # <<>> /\ Head(hpc.left).do = "lookup"
    /\ IF hcall.known THEN Proceed("Ok") ELSE Fail("LookupError")
    /\ UNCHANGED hcall
    /\ UNCHANGED <<codecVars, windowVars, engineVars, flagVars, loopVars, textVars>>

\* app.check_opted_out(..)?
CheckOptedOut ==
    /\ hpc.left # <<>> /\ Head(hpc.left).do = "opt_out"
    /\ IF hcall.opted_out THEN Fail("OptedOut") ELSE Proceed("Ok")
    /\ UNCHANGED hcall
    /\ UNCHANGED <<codecVars, windowVars, engineVars, flagVars, loopVars, textVars>>

\* One of the reads of db/mod.rs; its rows, or the redirect made of them, are
\* the handler's answer.
StoreRead ==
    /\ hpc.left # <<>> /\ Head(hpc.left).do = "store"
    /\ Proceed(IF Head(hpc.left).what \in {"read_available_channel_logs"}
                  \/ (Head(hpc.left).what = "read_available_user_logs"
                      /\ hcall.handler # "list_available_logs")
               THEN "Redirect" ELSE "Logs")
    /\ UNCHANGED hcall
    /\ UNCHANGED <<codecVars, windowVars, engineVars, flagVars, loopVars, textVars>>

\* list_available_logs without a user: return Err(Error::NotFound)
EarlyNotFound ==
    /\ hpc.left # <<>> /\ Head(hpc.left).do = "fail"
    /\ Fail(Head(hpc.left).what)
    /\ UNCHANGED hcall
    /\ UNCHANGED <<codecVars, windowVars, engineVars, flagVars, loopVars, textVars>>

NextHandlers ==
    \/ CheckAuth
    \/ NameLookup
    \/ CheckOptedOut
    \/ StoreRead
    \/ EarlyNotFound

SpecHandlers == InitHandlers /\ [][NextHandlers]_vars

\* C27: no handler has read the store before check_opted_out has passed.
C27_OptOutBeforeStore ==
    \A i \in 1..Len(htrace) :
        htrace[i].do = "store" =>
            \E j \in 1..(i - 1) : htrace[j].do = "opt_out" /\ htrace[j].ok

\* The request is one check_logs_auth is to let through.
Authorized ==
    \/ hcall.user \in {"gofishgame", "951349582"}
    \/ /\ hcall.admin_api_key # NoKey
       /\ hcall.header \notin {NoHeader, NotAscii}
       /\ hcall.header = hcall.admin_api_key

\* C28: the first thing a log handler does is check_logs_auth, and it does it
\* once; the check passes exactly when the user of the request is one of the
\* two listed users or the X-Api-Key header equals the configured admin key;
\* when it fails the handler answers InvalidAuthKey with no lookup and no
\* store read made; and with no admin key configured only the two listed
\* users pass, whatever the header.
C28_AuthFirst ==
    htrace # <<>> =>
        /\ htrace[1].do = "auth"
        /\ \A i \in 2..Len(htrace) : htrace[i].do # "auth"
        /\ htrace[1].ok <=> Authorized
        /\ ~htrace[1].ok =>
              /\ Len(htrace) = 1
              /\ hpc = [left |-> <<>>, answer |-> "InvalidAuthKey"]
        /\ (hcall.admin_api_key = NoKey /\ htrace[1].ok) =>
              hcall.user \in {"gofishgame", "951349582"}

\* A request for another user's logs by name with the configured key in its
\* header has passed the check, and the lookups and the store read came
\* after it.
C28_Witness ==
    /\ hcall.user = "someone"
    /\ hcall.admin_api_key = "secret"
    /\ hcall.header = "secret"
    /\ hpc.answer = "Logs"
    /\ Len(htrace) >= 4
    /\ htrace[1] = [do |-> "auth", what |-> "check_logs_auth", ok |-> TRUE]
    /\ htrace[2].do = "lookup"
    /\ htrace[Len(htrace)].do = "store"

====
